---- MODULE Spec2Model ----
(***************************************************************************)
(* Verification model of the OCI calculator backend: the lift-and-shift    *)
(* cost modeler (OciCostModelingService), its pricing lookups, the upload   *)
(* cascade delete and the document ingestion pipeline.                      *)
(*                                                                         *)
(* Numbers.  Money is an integer number of 1/10000 currency units (the      *)
(* code rounds every row amount with toFixed(4)); a unit price is an        *)
(* integer number of 1/10000 per unit; a quantity is an integer number of   *)
(* halves (the vCPU -> OCPU conversion divides by 2); a percentage is an    *)
(* integer number of 1/100 percent (toFixed(2)).  Arithmetic is exact       *)
(* decimal arithmetic; toFixed is rounding to the nearest, ties away from   *)
(* zero.                                                                    *)
(***************************************************************************)
EXTENDS Integers, Sequences, FiniteSets, TLC

\* ------------------------------------------------------------------------
\* Bounds of the model
\* ------------------------------------------------------------------------
\* completed-or-started model() calls in one behaviour of Spec
MaxCalls == 2
\* concurrent model() invocations in one behaviour of SpecRace
MaxRuns == 2

\* ------------------------------------------------------------------------
\* Representation
\* ------------------------------------------------------------------------
\* null / undefined of a numeric field
NULL == -1000000000
\* quantities are counted in 1/QtyDen units
QtyDen == 2
\* amounts the program rounds with toFixed(4) are counted in 1/10000; a source
\* cost is read as it was stored, unrounded, and is counted in 1/CostDen of
\* 1/10000
CostDen == 4
Coalesce(a, b) == IF a # NULL THEN a ELSE b
\* the source cost that is n / 10000
Ticks(n) == IF n = NULL THEN NULL ELSE n * CostDen

\* +(x).toFixed(k) of the exact quotient n / d, d > 0
ToFixed(n, d) ==
  LET mag == IF n >= 0 THEN n ELSE -n
      q   == (mag \div d) + (IF 2 * (mag % d) >= d THEN 1 ELSE 0)
  IN IF n >= 0 THEN q ELSE -q

\* +((amount / of) * 100).toFixed(2) for of > 0, in 1/100 percent; the
\* whole multiples of the divisor are taken out first, then the percents
PercentToFixed(amount, of) ==
  LET mag  == IF amount >= 0 THEN amount ELSE -amount
      rest == (mag % of) * 100
      pct  == (mag \div of) * 10000 + (rest \div of) * 100 + ToFixed((rest % of) * 100, of)
  IN IF amount >= 0 THEN pct ELSE -pct

\* NaN and the infinities, the results of a division by zero: one value
\* that is no amount
NotFinite == NULL - 1

\* +((amount / of) * 100).toFixed(2) for every divisor, in 1/100 percent
Percent(amount, of) ==
  IF of = 0 THEN NotFinite ELSE PercentToFixed(amount, of)

savingsPctOfFromZero(savingsAmount, sourceCost) ==
  IF sourceCost >= 0 THEN Percent(savingsAmount * CostDen, sourceCost) ELSE 0

\* sourceCost > 0 ? +((savingsAmount / sourceCost) * 100).toFixed(2) : 0
savingsPctOf(savingsAmount, sourceCost) ==
  IF sourceCost > 0 THEN Percent(savingsAmount * CostDen, sourceCost) ELSE 0

\* sum of a sequence of integers
RECURSIVE SeqSum(_)
SeqSum(s) == IF Len(s) = 0 THEN 0 ELSE s[1] + SeqSum(Tail(s))

\* ------------------------------------------------------------------------
\* SKU catalog (static reference data)
\* ------------------------------------------------------------------------
Categories == {"Compute", "Storage", "Network", "Database", "GenAI", "Other"}

Sku(pn, price) == [partNumber |-> pn, fallbackUnitPrice |-> price]

\* ordered: the first matching pattern wins
DATABASE_SUBTYPE_MAP ==
  << [pattern |-> "sqlserver", sku |-> Sku("B88439", 3700)],
     [pattern |-> "postgres",  sku |-> Sku("B103399", 544)],
     [pattern |-> "warehouse", sku |-> Sku("B91962", 2600)],
     [pattern |-> "nosql",     sku |-> Sku("B89037", 25)],
     [pattern |-> "cache",     sku |-> Sku("B103069", 130)],
     [pattern |-> "mysql",     sku |-> Sku("B89021", 544)] >>

DATABASE_DEFAULT_SKU == Sku("B89021", 544)

CATEGORY_SKU_MAP ==
  [c \in Categories |->
     CASE c = "Compute"  -> Sku("B88298", 250)
       [] c = "Storage"  -> Sku("B89879", 255)
       [] c = "Network"  -> Sku("B90046", 85)
       [] c = "Database" -> DATABASE_DEFAULT_SKU
       [] c = "GenAI"    -> Sku("B103447", 60)
       [] c = "Other"    -> Sku("B88298", 250)]

WINDOWS_LICENSE_SKU == "B88318"
WINDOWS_LICENSE_PRICE_PER_OCPU_HOUR == 920

\* savings factors in percent
SAVINGS_FACTOR ==
  [c \in Categories |->
     CASE c = "Compute"  -> 35
       [] c = "Storage"  -> 28
       [] c = "Network"  -> 55
       [] c = "Database" -> 40
       [] c = "GenAI"    -> 25
       [] c = "Other"    -> 30]

\* 10 TB in GB
OCI_FREE_NETWORK_EGRESS_GB == 10240
\* plausibility band of quantity-based cost / source cost, in percent
OCI_COST_VS_SOURCE_MIN_RATIO == 5
OCI_COST_VS_SOURCE_MAX_RATIO == 2000

AllPartNumbers ==
  {CATEGORY_SKU_MAP[c].partNumber : c \in Categories}
    \cup {DATABASE_SUBTYPE_MAP[i].sku.partNumber : i \in 1..Len(DATABASE_SUBTYPE_MAP)}
    \cup {WINDOWS_LICENSE_SKU}

\* the two loops that fill fallbackByPartNumber from the SKU tables: the
\* DATABASE_SUBTYPE_MAP entries are written last and overwrite
skuTableFallback(pn) ==
  IF \E i \in 1..Len(DATABASE_SUBTYPE_MAP) : DATABASE_SUBTYPE_MAP[i].sku.partNumber = pn
    THEN LET last == CHOOSE i \in 1..Len(DATABASE_SUBTYPE_MAP) :
                       /\ DATABASE_SUBTYPE_MAP[i].sku.partNumber = pn
                       /\ \A j \in 1..Len(DATABASE_SUBTYPE_MAP) :
                            DATABASE_SUBTYPE_MAP[j].sku.partNumber = pn => j <= i
         IN DATABASE_SUBTYPE_MAP[last].sku.fallbackUnitPrice
  ELSE IF \E c \in Categories : CATEGORY_SKU_MAP[c].partNumber = pn
    THEN CATEGORY_SKU_MAP[CHOOSE c \in Categories : CATEGORY_SKU_MAP[c].partNumber = pn].fallbackUnitPrice
  ELSE 0

\* variant: the Windows license SKU is not added to the table
fallbackByPartNumberWithoutWindows(pn) == skuTableFallback(pn)

\* fallbackByPartNumber[pn] ?? 0 of fetchOciPricesByPartNumbers
fallbackByPartNumber(pn) ==
  IF pn = WINDOWS_LICENSE_SKU
    THEN WINDOWS_LICENSE_PRICE_PER_OCPU_HOUR
    ELSE skuTableFallback(pn)

\* ------------------------------------------------------------------------
\* Billing records (UnifiedBilling documents) as model() reads them
\*   dbPatterns: the DATABASE_SUBTYPE_MAP patterns the product text matches
\*   spotText:   SPOT_PATTERN matches productName/productCode/sourceResourceId
\* ------------------------------------------------------------------------
Rec(cat, after, before, qty, win, pats, spot, prov) ==
  [serviceCategory |-> cat, costAfterTax |-> after, costBeforeTax |-> before,
   ociEquivalentQuantity |-> qty, isWindowsLicensed |-> win,
   dbPatterns |-> pats, spotText |-> spot, provider |-> prov]

\* resolveDbSku: first pattern of DATABASE_SUBTYPE_MAP that matches
resolveDbSku(pats) ==
  IF \E i \in 1..Len(DATABASE_SUBTYPE_MAP) : DATABASE_SUBTYPE_MAP[i].pattern \in pats
    THEN DATABASE_SUBTYPE_MAP[CHOOSE i \in 1..Len(DATABASE_SUBTYPE_MAP) :
            /\ DATABASE_SUBTYPE_MAP[i].pattern \in pats
            /\ \A j \in 1..(i - 1) : DATABASE_SUBTYPE_MAP[j].pattern \notin pats].sku
    ELSE DATABASE_DEFAULT_SKU

\* Step 1 of model(): the pre-resolved SKU of a record
resolvedSku(record) ==
  IF record.serviceCategory = "Database"
    THEN resolveDbSku(record.dbPatterns)
    ELSE CATEGORY_SKU_MAP[record.serviceCategory]

partNumbersNeeded(records) ==
  {resolvedSku(records[i]).partNumber : i \in 1..Len(records)} \cup {WINDOWS_LICENSE_SKU}

providerDetectedOf(records) ==
  IF \E i \in 1..Len(records) : records[i].provider # "unknown"
    THEN records[CHOOSE i \in 1..Len(records) :
            /\ records[i].provider # "unknown"
            /\ \A j \in 1..(i - 1) : records[j].provider = "unknown"].provider
    ELSE "unknown"

\* variant: a part number without a fetched price is priced at 0
PriceOrZero(ociPrices, pn, dflt) ==
  IF pn \in DOMAIN ociPrices THEN ociPrices[pn] ELSE 0

\* ociPrices[pn] ?? dflt
PriceOr(ociPrices, pn, dflt) ==
  IF pn \in DOMAIN ociPrices THEN ociPrices[pn] ELSE dflt

\* ------------------------------------------------------------------------
\* model(): the per-record estimate (body of the for loop)
\* ------------------------------------------------------------------------
sourceCostOf(record) == Coalesce(record.costAfterTax, Coalesce(record.costBeforeTax, 0))

\* variant: the estimate of a credit is negative
ratioBasedFallbackOfCredits(category, sourceCost) ==
  ToFixed(sourceCost * (100 - SAVINGS_FACTOR[category]), 100 * CostDen)

\* sourceCost > 0 ? +(sourceCost * (1 - savingsFactor)).toFixed(4) : 0
ratioBasedFallback(category, sourceCost) ==
  IF sourceCost > 0
    THEN ToFixed(sourceCost * (100 - SAVINGS_FACTOR[category]), 100 * CostDen)
    ELSE 0

quantityBasedOciCostAllPriced(category, qty, ociUnitPrice) ==
  ToFixed(qty * ociUnitPrice, QtyDen)

quantityBasedOciCost(category, qty, ociUnitPrice) ==
  IF category = "Network" /\ qty <= OCI_FREE_NETWORK_EGRESS_GB * QtyDen
    THEN 0
  ELSE IF category = "Network"
    THEN ToFixed((qty - OCI_FREE_NETWORK_EGRESS_GB * QtyDen) * ociUnitPrice, QtyDen)
  ELSE ToFixed(qty * ociUnitPrice, QtyDen)

\* ------------------------------------------------------------------------
\* Numbers of the language: IEEE 754 binary64.  A positive number is
\* m * 2^e with 2^52 <= m < 2^53; m is held as two 27-bit digits.
\* ------------------------------------------------------------------------
Wide(hi, lo) == [hi |-> hi, lo |-> lo]

\* 2 * x + bit
Twice(x, bit) ==
  Wide(2 * x.hi + (2 * x.lo + bit) \div 2^27, (2 * x.lo + bit) % 2^27)

AtLeast(x, y) == x.hi > y.hi \/ (x.hi = y.hi /\ x.lo >= y.lo)

\* x - y for x >= y
Minus(x, y) ==
  IF x.lo >= y.lo THEN Wide(x.hi - y.hi, x.lo - y.lo)
  ELSE Wide(x.hi - y.hi - 1, x.lo + 2^27 - y.lo)

\* 2^52 <= x
IsNormal(x) == x.hi >= 2^25

\* one step of the long division by d: the next quotient bit and remainder;
\* nothing once the quotient has 53 bits
QuotientStep(bits, d) ==
  IF IsNormal(bits.q) THEN bits
  ELSE IF AtLeast(Twice(bits.r, 0), d)
    THEN [q |-> Twice(bits.q, 1), r |-> Minus(Twice(bits.r, 0), d), e |-> bits.e - 1]
  ELSE [q |-> Twice(bits.q, 0), r |-> Twice(bits.r, 0), e |-> bits.e - 1]

\* n steps of the long division
RECURSIVE QuotientSteps(_, _, _)
QuotientSteps(n, bits, d) ==
  IF n = 1 THEN QuotientStep(bits, d)
  ELSE CHOOSE after \in {QuotientSteps(n - n \div 2, half, d) :
                          half \in {QuotientSteps(n \div 2, bits, d)}} : TRUE

\* the first 53 bits of the quotient, and the remainder left
QuotientBits(q, r, d, e) == QuotientSteps(53, [q |-> q, r |-> r, e |-> e], d)

\* the number an integer n >= 1 is: n / 1
FromInt(n) ==
  CHOOSE number \in
    {[m |-> bits.q, e |-> bits.e] :
       bits \in {QuotientBits(Wide(0, n), Wide(0, 0), Wide(0, 1), 0)}} : TRUE

\* round to nearest, ties to even: up when the next bit is 1 and either a
\* later bit is, or the last bit kept is
RoundToNearest(bits, d) ==
  IF /\ AtLeast(Twice(bits.r, 0), d)
     /\ (Minus(Twice(bits.r, 0), d) # Wide(0, 0) \/ bits.q.lo % 2 = 1)
    THEN IF bits.q = Wide(2^26 - 1, 2^27 - 1)
           THEN [m |-> Wide(2^25, 0), e |-> bits.e + 1]
         ELSE IF bits.q.lo = 2^27 - 1
           THEN [m |-> Wide(bits.q.hi + 1, 0), e |-> bits.e]
         ELSE [m |-> Wide(bits.q.hi, bits.q.lo + 1), e |-> bits.e]
    ELSE [m |-> bits.q, e |-> bits.e]

\* a / b of two positive numbers
Quotient(a, b) ==
  CHOOSE number \in
    {RoundToNearest(bits, b.m) :
       bits \in {IF AtLeast(a.m, b.m)
                   THEN QuotientBits(Wide(0, 1), Minus(a.m, b.m), b.m, a.e - b.e)
                   ELSE QuotientBits(Wide(0, 0), a.m, b.m, a.e - b.e)}} : TRUE

\* a <= b for two positive numbers
LessOrEqual(a, b) == a.e < b.e \/ (a.e = b.e /\ AtLeast(b.m, a.m))

\* the number nearest to the decimal n / d, as a literal or a parsed amount is
Decimal64(n, d) == Quotient(FromInt(n), FromInt(d))

\* the number an amount of money (in 1/10000) is
MoneyNumber(amount) == Decimal64(amount, 10000)

\* the number a source cost is
SourceCostNumber(sourceCost) == Decimal64(sourceCost, 10000 * CostDen)

\* ratio >= 0.05 && ratio <= 20 for the number ratio = quantityBased /
\* sourceCost
ratioInBand(quantityBased, sourceCost) ==
  \E ratio \in {Quotient(MoneyNumber(quantityBased), SourceCostNumber(sourceCost))} :
    /\ LessOrEqual(Decimal64(OCI_COST_VS_SOURCE_MIN_RATIO, 100), ratio)
    /\ LessOrEqual(ratio, Decimal64(OCI_COST_VS_SOURCE_MAX_RATIO, 100))

\* the two amounts are exactly in the proportion of a band limit
onBandLimit(quantityBased, sourceCost) ==
  \E limit \in {OCI_COST_VS_SOURCE_MIN_RATIO, OCI_COST_VS_SOURCE_MAX_RATIO} :
    /\ (limit * sourceCost) % (100 * CostDen) = 0
    /\ quantityBased = (limit * sourceCost) \div (100 * CostDen)

\* quantityBasedOciCost === 0 || (ratio >= MIN && ratio <= MAX).  The
\* division is carried out in binary64 when the amounts are on a band limit;
\* off the limits the exact ratio is further from the limit (by more than
\* 2^-31 of it) than the rounding of the operands and of the quotient can
\* move it (less than 2^-50 of it), so the exact comparison decides
useQuantityBased(quantityBased, sourceCost) ==
  \/ quantityBased = 0
  \/ /\ quantityBased > 0
     /\ IF onBandLimit(quantityBased, sourceCost)
          THEN ratioInBand(quantityBased, sourceCost)
          ELSE /\ quantityBased > (OCI_COST_VS_SOURCE_MIN_RATIO * sourceCost) \div (100 * CostDen)
               /\ quantityBased <= (OCI_COST_VS_SOURCE_MAX_RATIO * sourceCost) \div (100 * CostDen)

baseEstimateByQuantityFirst(category, sourceCost, qty, ociUnitPrice) ==
  IF qty # NULL /\ qty > 0 /\ sourceCost > 0
    THEN LET qb == quantityBasedOciCost(category, qty, ociUnitPrice)
         IN IF useQuantityBased(qb, sourceCost)
              THEN qb
              ELSE ratioBasedFallback(category, sourceCost)
  ELSE ratioBasedFallback(category, sourceCost)

baseEstimate(category, sourceCost, qty, ociUnitPrice) ==
  IF category = "Other"
    THEN ratioBasedFallback(category, sourceCost)
  ELSE IF qty # NULL /\ qty > 0 /\ sourceCost > 0
    THEN LET qb == quantityBasedOciCost(category, qty, ociUnitPrice)
         IN IF useQuantityBased(qb, sourceCost)
              THEN qb
              ELSE ratioBasedFallback(category, sourceCost)
  ELSE ratioBasedFallback(category, sourceCost)

windowsLicenseCostOf(hasWindowsLicense, sourceCost, qty, base, windowsPrice, computeBasePrice) ==
  IF ~hasWindowsLicense THEN 0
  ELSE IF qty # NULL /\ qty > 0 /\ sourceCost > 0
    THEN ToFixed(qty * windowsPrice, QtyDen)
  ELSE IF sourceCost > 0
    THEN ToFixed(base * windowsPrice, computeBasePrice)
  ELSE 0

\* one LiftAndShiftRow; ociPrices is the map fetchOciPricesByPartNumbers returned
modelRow(record, ociPrices, providerDetected) ==
  LET category     == record.serviceCategory
      skuDefault   == resolvedSku(record)
      ociUnitPrice == PriceOr(ociPrices, skuDefault.partNumber, skuDefault.fallbackUnitPrice)
      sourceCost   == sourceCostOf(record)
      qty          == record.ociEquivalentQuantity
      windowsPrice == PriceOr(ociPrices, WINDOWS_LICENSE_SKU, WINDOWS_LICENSE_PRICE_PER_OCPU_HOUR)
      computeBase  == PriceOr(ociPrices, CATEGORY_SKU_MAP["Compute"].partNumber,
                              CATEGORY_SKU_MAP["Compute"].fallbackUnitPrice)
      base         == baseEstimate(category, sourceCost, qty, ociUnitPrice)
      hasWin       == record.isWindowsLicensed /\ category = "Compute"
      winCost      == windowsLicenseCostOf(hasWin, sourceCost, qty, base, windowsPrice, computeBase)
      estimated    == base + winCost
      savings      == ToFixed(sourceCost - estimated * CostDen, CostDen)
  IN [serviceCategory       |-> category,
      sourceProvider        |-> record.provider,
      sourceCost            |-> sourceCost,
      ociSkuPartNumber      |-> skuDefault.partNumber,
      ociEquivalentQuantity |-> qty,
      ociUnitPrice          |-> ociUnitPrice,
      ociEstimatedCost      |-> estimated,
      savingsAmount         |-> savings,
      savingsPct            |-> savingsPctOf(savings, sourceCost),
      isSpotConverted       |-> providerDetected = "aws" /\ record.spotText,
      hasWindowsLicense     |-> hasWin,
      windowsLicenseCost    |-> winCost]

modelRows(records, ociPrices) ==
  [i \in 1..Len(records) |-> modelRow(records[i], ociPrices, providerDetectedOf(records))]

\* variant: the savings amount is not stored
insertDocWithoutSavings(row) ==
  [serviceCategory       |-> row.serviceCategory,
   sourceProvider        |-> row.sourceProvider,
   sourceCost            |-> row.sourceCost,
   ociSkuPartNumber      |-> row.ociSkuPartNumber,
   ociEquivalentQuantity |-> row.ociEquivalentQuantity,
   ociUnitPrice          |-> row.ociUnitPrice,
   ociEstimatedCost      |-> row.ociEstimatedCost,
   savingsAmount         |-> NULL,
   savingsPct            |-> row.savingsPct]

\* the document insertMany stores for a row (the schema has no flag fields)
insertDoc(row) ==
  [serviceCategory       |-> row.serviceCategory,
   sourceProvider        |-> row.sourceProvider,
   sourceCost            |-> row.sourceCost,
   ociSkuPartNumber      |-> row.ociSkuPartNumber,
   ociEquivalentQuantity |-> row.ociEquivalentQuantity,
   ociUnitPrice          |-> row.ociUnitPrice,
   ociEstimatedCost      |-> row.ociEstimatedCost,
   savingsAmount         |-> row.savingsAmount,
   savingsPct            |-> row.savingsPct]

\* the row getByUploadId rebuilds from a persisted document
rowFromDoc(d) ==
  [serviceCategory       |-> d.serviceCategory,
   sourceProvider        |-> d.sourceProvider,
   sourceCost            |-> Coalesce(d.sourceCost, 0),
   ociSkuPartNumber      |-> d.ociSkuPartNumber,
   ociEquivalentQuantity |-> d.ociEquivalentQuantity,
   ociUnitPrice          |-> Coalesce(d.ociUnitPrice, 0),
   ociEstimatedCost      |-> Coalesce(d.ociEstimatedCost, 0),
   savingsAmount         |-> Coalesce(d.savingsAmount, 0),
   savingsPct            |-> Coalesce(d.savingsPct, 0),
   isSpotConverted       |-> FALSE,
   hasWindowsLicense     |-> FALSE,
   windowsLicenseCost    |-> 0]

\* ------------------------------------------------------------------------
\* buildResult / emptyResult
\* ------------------------------------------------------------------------
\* the values of one numeric field of the rows
Column(rows, field) == [i \in 1..Len(rows) |-> rows[i][field]]

RowsOfCategory(rows, cat) == SelectSeq(rows, LAMBDA r : r.serviceCategory = cat)

byCategoryOf(rows) ==
  [cat \in {rows[i].serviceCategory : i \in 1..Len(rows)} |->
     [sourceCost |-> ToFixed(SeqSum(Column(RowsOfCategory(rows, cat), "sourceCost")), CostDen),
      ociCost    |-> SeqSum(Column(RowsOfCategory(rows, cat), "ociEstimatedCost")),
      savings    |-> SeqSum(Column(RowsOfCategory(rows, cat), "savingsAmount"))]]

buildResult(providerDetected, rows) ==
  LET totalSourceCost       == SeqSum(Column(rows, "sourceCost"))
      totalOciEstimatedCost == SeqSum(Column(rows, "ociEstimatedCost"))
      totalSavings          == ToFixed(totalSourceCost - totalOciEstimatedCost * CostDen, CostDen)
  IN [sourceProvider |-> providerDetected,
      rows           |-> rows,
      summary        |->
        [totalSourceCost       |-> ToFixed(totalSourceCost, CostDen),
         totalOciEstimatedCost |-> totalOciEstimatedCost,
         totalSavings          |-> totalSavings,
         totalSavingsPct       |-> savingsPctOf(totalSavings, totalSourceCost),
         byCategory            |-> byCategoryOf(rows)]]

emptyResult ==
  [sourceProvider |-> "unknown",
   rows           |-> << >>,
   summary        |->
     [totalSourceCost |-> 0, totalOciEstimatedCost |-> 0, totalSavings |-> 0,
      totalSavingsPct |-> 0, byCategory |-> << >>]]

\* getByUploadId: null when no row is persisted, else the result rebuilt
\* from the persisted documents (ociEstimatedCost $ne null)
getByUploadId(docs) ==
  LET kept == SelectSeq(docs, LAMBDA d : d.ociEstimatedCost # NULL)
      rows == [i \in 1..Len(kept) |-> rowFromDoc(kept[i])]
      provider ==
        IF \E i \in 1..Len(rows) : rows[i].sourceProvider # "unknown"
          THEN rows[CHOOSE i \in 1..Len(rows) :
                  /\ rows[i].sourceProvider # "unknown"
                  /\ \A j \in 1..(i - 1) : rows[j].sourceProvider = "unknown"].sourceProvider
          ELSE "unknown"
  IN IF Len(kept) = 0
       THEN [found |-> FALSE, result |-> emptyResult]
       ELSE [found |-> TRUE, result |-> buildResult(provider, rows)]

\* ------------------------------------------------------------------------
\* Pricing lookups
\*   a repository / live API answer is [status, unitPrice] with status
\*   "error" (the call throws), "none" (no row / no item) or "price"
\* ------------------------------------------------------------------------
Answer(st, p) == [status |-> st, unitPrice |-> p]

\* PricingService.getPriceFromDb: a repository error is caught and becomes null
getPriceFromDb(repo) ==
  IF repo.status = "price" THEN repo.unitPrice ELSE NULL

\* variant: a cached price of 0 is taken as a price
lookupOneAcceptsZero(pn, repo, live) ==
  LET fromDb == getPriceFromDb(repo)
  IN IF fromDb # NULL
       THEN [fulfilled |-> TRUE, price |-> fromDb, liveCalled |-> FALSE]
     ELSE IF live.status = "error"
       THEN [fulfilled |-> FALSE, price |-> 0, liveCalled |-> TRUE]
     ELSE IF live.status = "price" /\ live.unitPrice > 0
       THEN [fulfilled |-> TRUE, price |-> live.unitPrice, liveCalled |-> TRUE]
     ELSE [fulfilled |-> TRUE, price |-> fallbackByPartNumber(pn), liveCalled |-> TRUE]

\* one element of the partNumbers.map(...) of fetchOciPricesByPartNumbers:
\* fulfilled with a price, or rejected when the live lookup throws
lookupOne(pn, repo, live) ==
  LET fromDb == getPriceFromDb(repo)
  IN IF fromDb # NULL /\ fromDb > 0
       THEN [fulfilled |-> TRUE, price |-> fromDb, liveCalled |-> FALSE]
     ELSE IF live.status = "error"
       THEN [fulfilled |-> FALSE, price |-> 0, liveCalled |-> TRUE]
     ELSE IF live.status = "price" /\ live.unitPrice > 0
       THEN [fulfilled |-> TRUE, price |-> live.unitPrice, liveCalled |-> TRUE]
     ELSE [fulfilled |-> TRUE, price |-> fallbackByPartNumber(pn), liveCalled |-> TRUE]

\* the prices map built from the settled promises; lookups[pn] = [repo, live]
fetchOciPricesByPartNumbers(lookups) ==
  LET settled == [pn \in DOMAIN lookups |-> lookupOne(pn, lookups[pn].repo, lookups[pn].live)]
  IN [pn \in {q \in DOMAIN lookups : settled[q].fulfilled} |-> settled[pn].price]

\* number of pricing calls (repository + live API) the lookups made
lookupCalls(lookups) ==
  Cardinality(DOMAIN lookups)
    + Cardinality({pn \in DOMAIN lookups :
                     lookupOne(pn, lookups[pn].repo, lookups[pn].live).liveCalled})

\* ------------------------------------------------------------------------
\* History: the price the answers received for a SKU amount to, by the
\* documented strategy (cache, then live API, then catalog constant)
\* ------------------------------------------------------------------------
CatalogSkus ==
  {CATEGORY_SKU_MAP[c] : c \in Categories}
    \cup {DATABASE_SUBTYPE_MAP[i].sku : i \in 1..Len(DATABASE_SUBTYPE_MAP)}
    \cup {DATABASE_DEFAULT_SKU, Sku(WINDOWS_LICENSE_SKU, WINDOWS_LICENSE_PRICE_PER_OCPU_HOUR)}

CatalogFallback(pn) ==
  (CHOOSE k \in CatalogSkus : k.partNumber = pn).fallbackUnitPrice

Positive(answer) == answer.status = "price" /\ answer.unitPrice > 0

AnsweredPrice(pn, lk) ==
  IF Positive(lk.repo) THEN lk.repo.unitPrice
  ELSE IF Positive(lk.live) THEN lk.live.unitPrice
  ELSE CatalogFallback(pn)

AnsweredPrices(lookups) == [pn \in DOMAIN lookups |-> AnsweredPrice(pn, lookups[pn])]

\* ------------------------------------------------------------------------
\* Strings the code inspects character by character (file names, leading
\* bytes of a buffer, error messages) are sequences of characters
\* ------------------------------------------------------------------------
\* String.prototype.toLowerCase: the letters it maps
UpperCaseLetters ==
  <<"A","B","C","D","E","F","G","H","I","J","K","L","M","N","O","P","Q","R",
    "S","T","U","V","W","X","Y","Z">>

\* and their images
LowerCaseLetters ==
  <<"a","b","c","d","e","f","g","h","i","j","k","l","m","n","o","p","q","r",
    "s","t","u","v","w","x","y","z">>

LowerCaseOf ==
  [c \in {UpperCaseLetters[k] : k \in 1..Len(UpperCaseLetters)} |->
     LowerCaseLetters[CHOOSE k \in 1..Len(UpperCaseLetters) : UpperCaseLetters[k] = c]]

ToLowerCase(s) ==
  [i \in 1..Len(s) |-> IF s[i] \in DOMAIN LowerCaseOf THEN LowerCaseOf[s[i]] ELSE s[i]]

\* String.prototype.includes
Includes(s, sub) ==
  \E i \in 1..(Len(s) - Len(sub) + 1) : SubSeq(s, i, i + Len(sub) - 1) = sub

\* /<suffix>$/.test(s)
EndsWith(s, suffix) ==
  /\ Len(s) >= Len(suffix)
  /\ SubSeq(s, Len(s) - Len(suffix) + 1, Len(s)) = suffix

\* buffer.length >= n && buffer.subarray(0, n).equals(magic)
HasMagic(buffer, magic) ==
  /\ Len(buffer) >= Len(magic)
  /\ SubSeq(buffer, 1, Len(magic)) = magic

\* ------------------------------------------------------------------------
\* ParserFactory: file type detection and PDF backend selection
\* ------------------------------------------------------------------------
\* '%PDF'
PDF_MAGIC ==
  <<"%","P","D","F">>

\* 'PK'
XLSX_ZIP_MAGIC ==
  <<"P","K">>

XLSX_MIME == "application/vnd.openxmlformats-officedocument.spreadsheetml.sheet"

CSV_MIMES == {"text/csv", "text/plain", "application/csv"}

\* '.pdf'
PdfExtension ==
  <<".","p","d","f">>

\* '.xlsx'
XlsxExtension ==
  <<".","x","l","s","x">>

\* '.csv'
CsvExtension ==
  <<".","c","s","v">>

\* /[,;\t]/
Delimiters == {",", ";", "\t"}

\* 'Unsupported file type. Upload a PDF invoice, a CSV billing export, or an XLSX workbook.'
MsgUnsupportedFileType ==
  <<"U","n","s","u","p","p","o","r","t","e","d"," ","f","i","l","e"," ","t",
    "y","p","e","."," ","U","p","l","o","a","d"," ","a"," ","P","D","F"," ",
    "i","n","v","o","i","c","e",","," ","a"," ","C","S","V"," ","b","i","l",
    "l","i","n","g"," ","e","x","p","o","r","t",","," ","o","r"," ","a","n",
    " ","X","L","S","X"," ","w","o","r","k","b","o","o","k",".">>

\* 'Amazon Textract is not configured. Set TEXTRACT_ACCESS_KEY_ID, TEXTRACT_SECRET_ACCESS_KEY, and TEXTRACT_REGION.'
MsgTextractNotConfigured ==
  <<"A","m","a","z","o","n"," ","T","e","x","t","r","a","c","t"," ","i","s",
    " ","n","o","t"," ","c","o","n","f","i","g","u","r","e","d","."," ","S",
    "e","t"," ","T","E","X","T","R","A","C","T","_","A","C","C","E","S","S",
    "_","K","E","Y","_","I","D",","," ","T","E","X","T","R","A","C","T","_",
    "S","E","C","R","E","T","_","A","C","C","E","S","S","_","K","E","Y",",",
    " ","a","n","d"," ","T","E","X","T","R","A","C","T","_","R","E","G","I",
    "O","N",".">>

\* 'Gemini AI is not configured. Set GEMINI_API_KEY.'
MsgGeminiNotConfigured ==
  <<"G","e","m","i","n","i"," ","A","I"," ","i","s"," ","n","o","t"," ","c",
    "o","n","f","i","g","u","r","e","d","."," ","S","e","t"," ","G","E","M",
    "I","N","I","_","A","P","I","_","K","E","Y",".">>

\* a thrown value: BadRequestException and Error are instances of Error,
\* "NonError" is any other thrown value, "none" is nothing thrown
Err(kind, message) == [kind |-> kind, message |-> message]

NoError == Err("none", << >>)

\* the 1024-byte preview of the content sniff; the buffers used are shorter
Preview(buffer) == SubSeq(buffer, 1, IF Len(buffer) < 1024 THEN Len(buffer) ELSE 1024)

\* "unsupported" stands for the BadRequestException thrown at the end
detectFileTypeSniffIgnoresPdf(buffer, fileName, mimeType) ==
  IF HasMagic(buffer, PDF_MAGIC) THEN "pdf"
  ELSE IF /\ HasMagic(buffer, XLSX_ZIP_MAGIC)
          /\ (mimeType = XLSX_MIME \/ EndsWith(ToLowerCase(fileName), XlsxExtension))
    THEN "xlsx"
  ELSE IF mimeType = "application/pdf" \/ EndsWith(ToLowerCase(fileName), PdfExtension)
    THEN "pdf"
  ELSE IF mimeType = XLSX_MIME \/ EndsWith(ToLowerCase(fileName), XlsxExtension)
    THEN "xlsx"
  ELSE IF mimeType \in CSV_MIMES \/ EndsWith(ToLowerCase(fileName), CsvExtension)
    THEN "csv"
  ELSE IF \E i \in 1..Len(Preview(buffer)) : Preview(buffer)[i] \in Delimiters
    THEN "csv"
  ELSE "unsupported"

detectFileType(buffer, fileName, mimeType) ==
  IF HasMagic(buffer, PDF_MAGIC) THEN "pdf"
  ELSE IF /\ HasMagic(buffer, XLSX_ZIP_MAGIC)
          /\ (mimeType = XLSX_MIME \/ EndsWith(ToLowerCase(fileName), XlsxExtension))
    THEN "xlsx"
  ELSE IF mimeType = "application/pdf" \/ EndsWith(ToLowerCase(fileName), PdfExtension)
    THEN "pdf"
  ELSE IF mimeType = XLSX_MIME \/ EndsWith(ToLowerCase(fileName), XlsxExtension)
    THEN "xlsx"
  ELSE IF mimeType \in CSV_MIMES \/ EndsWith(ToLowerCase(fileName), CsvExtension)
    THEN "csv"
  ELSE IF /\ ~Includes(Preview(buffer), PDF_MAGIC)
          /\ \E i \in 1..Len(Preview(buffer)) : Preview(buffer)[i] \in Delimiters
    THEN "csv"
  ELSE "unsupported"

\* the backend parsePdf hands the buffer to, or the error it throws before
\* handing it to any
PdfRoute(backend, error) == [backend |-> backend, error |-> error]

parsePdfFallsBack(extractor, geminiAvailable, textractAvailable) ==
  IF extractor = "textract" /\ textractAvailable THEN PdfRoute("textract", NoError)
  ELSE IF extractor = "gemini" /\ geminiAvailable THEN PdfRoute("gemini", NoError)
  ELSE IF geminiAvailable THEN PdfRoute("gemini", NoError)
  ELSE IF textractAvailable THEN PdfRoute("textract", NoError)
  ELSE PdfRoute("pdfExtractor", NoError)

parsePdf(extractor, geminiAvailable, textractAvailable) ==
  IF extractor = "textract"
    THEN IF ~textractAvailable
           THEN PdfRoute("none", Err("BadRequest", MsgTextractNotConfigured))
           ELSE PdfRoute("textract", NoError)
  ELSE IF extractor = "gemini"
    THEN IF ~geminiAvailable
           THEN PdfRoute("none", Err("BadRequest", MsgGeminiNotConfigured))
           ELSE PdfRoute("gemini", NoError)
  ELSE IF geminiAvailable THEN PdfRoute("gemini", NoError)
  ELSE IF textractAvailable THEN PdfRoute("textract", NoError)
  ELSE PdfRoute("pdfExtractor", NoError)

\* what the extractor that is handed the buffer does: line items or a throw
Extracted(items) == [error |-> NoError, lineItems |-> items]

ExtractionThrew(error) == [error |-> error, lineItems |-> << >>]

\* parseFromBuffer: the parser result, the backend used and the error thrown
parseFromBuffer(buffer, fileName, mimeType, extractor, geminiAvailable, textractAvailable, extraction) ==
  LET fileType == detectFileType(buffer, fileName, mimeType)
      route    == parsePdf(extractor, geminiAvailable, textractAvailable)
  IN  IF fileType = "unsupported"
        THEN [fileType |-> fileType, backend |-> "none", lineItems |-> << >>,
              error |-> Err("BadRequest", MsgUnsupportedFileType)]
      ELSE IF fileType = "pdf" /\ route.error # NoError
        THEN [fileType |-> fileType, backend |-> "none", lineItems |-> << >>,
              error |-> route.error]
      ELSE [fileType |-> fileType,
            backend |-> IF fileType = "pdf" THEN route.backend
                        ELSE IF fileType = "csv" THEN "csvExtractor"
                        ELSE "xlsxExtractor",
            lineItems |-> extraction.lineItems,
            error |-> extraction.error]

\* ------------------------------------------------------------------------
\* DocumentIngestionService: error message sanitizing
\* ------------------------------------------------------------------------
MAX_FILE_SIZE == 50 * 1024 * 1024

\* 'No file provided'
MsgNoFileProvided ==
  <<"N","o"," ","f","i","l","e"," ","p","r","o","v","i","d","e","d">>

\* 'File exceeds the 50 MB limit'
MsgFileTooLarge ==
  <<"F","i","l","e"," ","e","x","c","e","e","d","s"," ","t","h","e"," ","5",
    "0"," ","M","B"," ","l","i","m","i","t">>

\* 'Processing failed'
MsgProcessingFailed ==
  <<"P","r","o","c","e","s","s","i","n","g"," ","f","a","i","l","e","d">>

\* 'Document could not be read. Verify the file is not corrupted or password-protected.'
MsgDocumentCouldNotBeRead ==
  <<"D","o","c","u","m","e","n","t"," ","c","o","u","l","d"," ","n","o","t",
    " ","b","e"," ","r","e","a","d","."," ","V","e","r","i","f","y"," ","t",
    "h","e"," ","f","i","l","e"," ","i","s"," ","n","o","t"," ","c","o","r",
    "r","u","p","t","e","d"," ","o","r"," ","p","a","s","s","w","o","r","d",
    "-","p","r","o","t","e","c","t","e","d",".">>

\* the substrings sanitizeErrorMessage looks for
SensitiveWords ==
  {<<"p","a","s","s","w","o","r","d">>,
   <<"c","o","r","r","u","p","t">>,
   <<"c","a","n","n","o","t"," ","r","e","a","d">>,
   <<"i","n","v","a","l","i","d">>,
   <<"p","a","r","s","e">>,
   <<"u","n","r","e","a","d","a","b","l","e">>}

sanitizeErrorMessageKeepsCase(err) ==
  LET raw == IF err.kind \in {"BadRequest", "Error"} THEN err.message
             ELSE MsgProcessingFailed
  IN  IF \E w \in SensitiveWords : Includes(raw, w)
        THEN MsgDocumentCouldNotBeRead
        ELSE raw

sanitizeErrorMessage(err) ==
  LET raw   == IF err.kind \in {"BadRequest", "Error"} THEN err.message
               ELSE MsgProcessingFailed
      lower == ToLowerCase(raw)
  IN  IF \E w \in SensitiveWords : Includes(lower, w)
        THEN MsgDocumentCouldNotBeRead
        ELSE raw

\* ------------------------------------------------------------------------
\* Uploaded files and the errors the parsing and persistence steps throw
\* ------------------------------------------------------------------------
\* buffer holds the leading bytes, size is buffer.length
File(originalname, mimetype, buffer, size) ==
  [originalname |-> originalname, mimetype |-> mimetype, buffer |-> buffer, size |-> size]

\* processFile called without a file
NoFile == [originalname |-> << >>, mimetype |-> "", buffer |-> << >>, size |-> -1]

FilePdf ==
  File(<<"a",".","p","d","f">>, "application/pdf",
       <<"%","P","D","F","-","1",".","4">>, 8)

FilePdfByMagic ==
  File(<<"b","l","o","b">>, "application/octet-stream",
       <<"%","P","D","F","-","1",".","7">>, 8)

FilePdfByExtension ==
  File(<<"B",".","P","D","F">>, "",
       <<"s","c","a","n">>, 4)

FileXlsx ==
  File(<<"b",".","x","l","s","x">>, XLSX_MIME,
       <<"P","K","3","4">>, 4)

FileCsv ==
  File(<<"c",".","c","s","v">>, "text/csv",
       <<"a",",","b">>, 3)

FileCsvByMime ==
  File(<<"n","o","t","e","s">>, "text/plain",
       <<"h","e","l","l","o">>, 5)

FileCsvBySniff ==
  File(<<"d","a","t","a">>, "application/octet-stream",
       <<"a",";","b">>, 3)

\* files of no recognised type
FileZip ==
  File(<<"c",".","z","i","p">>, "application/zip",
       <<"P","K","3","4">>, 4)

FileBinary ==
  File(<<"d",".","b","i","n">>, "application/octet-stream",
       <<"h","e","l","l","o">>, 5)

FileEmbeddedPdf ==
  File(<<"e",".","d","a","t">>, "application/octet-stream",
       <<"x","%","P","D","F",",","y">>, 7)

FileEmpty ==
  File(<<"b","l","o","b">>, "application/octet-stream",
       <<>>, 0)

FileTooLarge ==
  File(<<"b","i","g",".","c","s","v">>, "text/csv",
       <<"a",",","b">>, MAX_FILE_SIZE + 1)

UnrecognisedFiles == {FileZip, FileBinary, FileEmbeddedPdf, FileEmpty}

Files ==
  {FilePdf, FilePdfByMagic, FilePdfByExtension, FileXlsx, FileCsv, FileCsvByMime,
   FileCsvBySniff, FileTooLarge} \cup UnrecognisedFiles

PdfExtractors == {"auto", "textract", "gemini"}

\* GeminiService.process: the response is not JSON
ErrGeminiInvalidJson ==
  Err("Error",
      <<"G","e","m","i","n","i"," ","r","e","t","u","r","n","e","d"," ","i","n",
        "v","a","l","i","d"," ","J","S","O","N"," ","f","o","r"," ","\"","a",".",
        "p","d","f","\"">>)

\* GeminiService.process: the response is empty
ErrGeminiEmptyResponse ==
  Err("Error",
      <<"G","e","m","i","n","i"," ","r","e","t","u","r","n","e","d"," ","a","n",
        " ","e","m","p","t","y"," ","r","e","s","p","o","n","s","e"," ","f","o",
        "r"," ","\"","a",".","p","d","f","\"">>)

\* a TypeError of the runtime, thrown while normalizing a malformed item
ErrTypeError ==
  Err("Error",
      <<"C","a","n","n","o","t"," ","r","e","a","d"," ","p","r","o","p","e","r",
        "t","i","e","s"," ","o","f"," ","u","n","d","e","f","i","n","e","d"," ",
        "(","r","e","a","d","i","n","g"," ","'","t","r","i","m","'",")">>)

\* the error insertMany rejects with on a duplicate key
ErrDuplicateKey ==
  Err("Error",
      <<"E","1","1","0","0","0"," ","d","u","p","l","i","c","a","t","e"," ","k",
        "e","y"," ","e","r","r","o","r">>)

\* a rejection with a value that is not an Error (rethrown by GeminiService.process)
ErrNonError == Err("NonError", << >>)

ExtractionErrors == {ErrGeminiInvalidJson, ErrGeminiEmptyResponse, ErrNonError}

NormalizationErrors == {ErrTypeError}

PersistenceErrors == {ErrDuplicateKey}

\* ------------------------------------------------------------------------
\* PDF extraction: the line items each path returns
\* ------------------------------------------------------------------------
\* JavaScript values: null, a string, a number
Null == [t |-> "null"]

Str(s) == [t |-> "string", s |-> s]

Num(n) == [t |-> "number", n |-> n]

\* a ?? b
Nullish(a, b) == IF a = Null THEN b ELSE a

\* the truth value of a JavaScript value in a condition
Truthy(x) ==
  IF x.t = "null" THEN FALSE
  ELSE IF x.t = "string" THEN x.s # ""
  ELSE x.n # 0

\* the characters String.prototype.trim removes
WhiteSpace == {" ", "\t", "\n", "\r"}

Trim(s) ==
  LET kept == {i \in 1..Len(s) : s[i] \notin WhiteSpace}
  IN  IF kept = {} THEN << >>
      ELSE SubSeq(s, CHOOSE i \in kept : \A j \in kept : i <= j,
                     CHOOSE i \in kept : \A j \in kept : i >= j)

\* text.split(/\r?\n/)
RECURSIVE SplitLines(_)
SplitLines(text) ==
  LET breaks == {i \in 1..Len(text) : text[i] = "\n"}
  IN  IF breaks = {} THEN <<text>>
      ELSE LET i    == CHOOSE b \in breaks : \A c \in breaks : b <= c
               head == SubSeq(text, 1, i - 1)
               line == IF Len(head) > 0 /\ head[Len(head)] = "\r"
                         THEN SubSeq(head, 1, Len(head) - 1)
                         ELSE head
           IN  <<line>> \o SplitLines(SubSeq(text, i + 1, Len(text)))

\* .map((l) => l.trim()).filter(Boolean)
RECURSIVE TrimmedNonEmpty(_)
TrimmedNonEmpty(lines) ==
  IF Len(lines) = 0 THEN << >>
  ELSE LET l == Trim(Head(lines))
       IN  (IF Len(l) > 0 THEN <<l>> ELSE << >>) \o TrimmedNonEmpty(Tail(lines))

\* an extracted line item: its product name and what its rawLine holds
LineItem(productName, rawLine) == [productName |-> productName, rawLine |-> rawLine]

\* one item per non-blank line; a catch-all item when there is none and the
\* trimmed text is not empty
normalizeTextToLineItems(text) ==
  LET lines == TrimmedNonEmpty(SplitLines(text))
      items == [i \in 1..Len(lines) |-> LineItem(lines[i], "line")]
  IN  IF Len(items) = 0 /\ Len(Trim(text)) > 0
        THEN <<LineItem(<<"F", "u", "l", "l">>, "text")>>
        ELSE items

\* a table row as read by a structured backend: description and parsed amount
TableRow(description, amount) == [description |-> description, amount |-> amount]

\* rows with neither a product name nor a cost are skipped
RECURSIVE tableItems(_)
tableItems(rows) ==
  IF Len(rows) = 0 THEN << >>
  ELSE LET productName == Head(rows).description
           kept == ~(~Truthy(productName) /\ Head(rows).amount = Null)
       IN  (IF kept THEN <<LineItem(productName, "expenseFields")>> ELSE << >>)
             \o tableItems(Tail(rows))

\* the document summary a structured backend reads
Summary(invoiceId, totalAmount, vendorName) ==
  [invoiceId |-> invoiceId, totalAmount |-> totalAmount, vendorName |-> vendorName]

\* if (invoiceId ?? totalAmount ?? vendorName) push the receipt-style item
receiptItems(summary) ==
  IF Truthy(Nullish(summary.invoiceId, Nullish(summary.totalAmount, summary.vendorName)))
    THEN <<LineItem(Nullish(summary.vendorName, Str("Cloud Invoice")), "summary")>>
    ELSE << >>

\* one expense document / invoice / analyzed document: summary and table rows
Document(summary, rows) == [summary |-> summary, rows |-> rows]

documentItems(doc) ==
  LET items == tableItems(doc.rows)
  IN  IF Len(items) = 0 THEN receiptItems(doc.summary) ELSE items

\* TextractService.parseResponse: the items of every expense document
RECURSIVE parseResponse(_)
parseResponse(expenseDocuments) ==
  IF Len(expenseDocuments) = 0 THEN << >>
  ELSE documentItems(Head(expenseDocuments)) \o parseResponse(Tail(expenseDocuments))

\* GeminiService.mapToLineItems
mapToLineItems(invoice) == documentItems(invoice)

\* OciDocumentAiService.extractLineItems
extractLineItems(response) == documentItems(response)

\* texts the text extraction can return
TextEmpty ==
  <<>>

TextBlank ==
  <<" ","\n","\t","\r","\n"," ">>

TextWord ==
  <<"t","o","t","a","l">>

TextTwoLines ==
  <<"E","C","2"," ","1",".","5","0","\r","\n","S","3"," ","2",",","2","5">>

TextBlankLines ==
  <<"\n"," ","a"," ","\n","\n">>

Texts == {TextEmpty, TextBlank, TextWord, TextTwoLines, TextBlankLines}

\* summaries: fields absent (null), empty, zero or present
Summaries ==
  {Summary(i, t, v) : i \in {Null, Str(""), Str("INV-1")},
                      t \in {Null, Num(0), Num(1250)},
                      v \in {Null, Str("ACME")}}

RowSets ==
  {<< >>,
   <<TableRow(Null, Null)>>,
   <<TableRow(Str(""), Null), TableRow(Null, Null)>>,
   <<TableRow(Str("EC2"), Num(150))>>,
   <<TableRow(Null, Num(0)), TableRow(Null, Null)>>}

Documents == {Document(s, r) : s \in Summaries, r \in RowSets}

\* Textract responses: no expense document, one, or an empty one followed by one
TextractResponses ==
  {<< >>} \cup {<<d>> : d \in Documents}
    \cup {<<Document(Summary(Null, Null, Null), << >>), d>> : d \in Documents}

\* detectFileType inputs: every combination of leading bytes, MIME type and
\* file name of the sample files
DetectInputs ==
  {[buffer |-> b.buffer, fileName |-> n.originalname, mimeType |-> m] :
     b \in Files \ {FileTooLarge}, n \in Files \ {FileTooLarge},
     m \in {f.mimetype : f \in Files}}

\* ------------------------------------------------------------------------
\* Regular expressions over sequences of characters
\* ------------------------------------------------------------------------
\* a pattern is a sequence of lower-case literal characters, "ANY?" for .?
\* and "WB" for \b; a case-insensitive test lower-cases the text first
WordCharacters ==
  {LowerCaseLetters[k] : k \in 1..Len(LowerCaseLetters)}
    \cup {UpperCaseLetters[k] : k \in 1..Len(UpperCaseLetters)}
    \cup {"0", "1", "2", "3", "4", "5", "6", "7", "8", "9", "_"}

\* \b holds before position i
WordBoundary(s, i) ==
  (i - 1 >= 1 /\ i - 1 <= Len(s) /\ s[i - 1] \in WordCharacters)
    # (i >= 1 /\ i <= Len(s) /\ s[i] \in WordCharacters)

\* the positions after a match of pattern[k..] that starts at position i
RECURSIVE MatchEnds(_, _, _, _)
MatchEnds(s, i, pattern, k) ==
  IF k > Len(pattern) THEN {i}
  ELSE IF pattern[k] = "WB"
    THEN IF WordBoundary(s, i) THEN MatchEnds(s, i, pattern, k + 1) ELSE {}
  ELSE IF pattern[k] = "ANY?"
    THEN MatchEnds(s, i, pattern, k + 1)
           \cup (IF i <= Len(s) /\ s[i] # "\n" THEN MatchEnds(s, i + 1, pattern, k + 1) ELSE {})
  ELSE IF i <= Len(s) /\ s[i] = pattern[k] THEN MatchEnds(s, i + 1, pattern, k + 1)
  ELSE {}

\* /(p1|p2|...)/.test(s)
Test(s, patterns) ==
  \E p \in patterns, i \in 1..(Len(s) + 1) : MatchEnds(s, i, p, 1) # {}

\* /\b(p1|p2|...)\b/.test(s)
TestWord(s, patterns) ==
  \E p \in patterns, i \in 1..(Len(s) + 1) :
    WordBoundary(s, i) /\ \E j \in MatchEnds(s, i, p, 1) : WordBoundary(s, j)

UpperCaseOf ==
  [c \in {LowerCaseLetters[k] : k \in 1..Len(LowerCaseLetters)} |->
     UpperCaseLetters[CHOOSE k \in 1..Len(LowerCaseLetters) : LowerCaseLetters[k] = c]]

ToUpperCase(s) ==
  [i \in 1..Len(s) |-> IF s[i] \in DOMAIN UpperCaseOf THEN UpperCaseOf[s[i]] ELSE s[i]]

\* ------------------------------------------------------------------------
\* NormalizationService
\* ------------------------------------------------------------------------
\* patterns are written lower-cased: all four maps are case-insensitive
AWS_USAGE_TYPE_MAP ==
  <<[category |-> "Compute", pattern |->
      {<<"b","o","x","u","s","a","g","e">>,
       <<"s","p","o","t","u","s","a","g","e">>,
       <<"d","e","d","i","c","a","t","e","d","u","s","a","g","e">>,
       <<"i","n","s","t","a","n","c","e","u","s","a","g","e">>,
       <<"h","e","a","v","y","u","s","a","g","e">>,
       <<"u","n","u","s","e","d","b","o","x">>}],
    [category |-> "Storage", pattern |->
      {<<"e","b","s">>, <<"v","o","l","u","m","e","u","s","a","g","e">>,
       <<"s","3">>, <<"s","t","o","r","a","g","e","b","y","t","e","s">>,
       <<"g","l","a","c","i","e","r">>, <<"e","f","s">>}],
    [category |-> "Network", pattern |->
      {<<"d","a","t","a","t","r","a","n","s","f","e","r">>,
       <<"n","a","t","g","a","t","e","w","a","y">>, <<"v","p","n">>,
       <<"c","l","o","u","d","f","r","o","n","t">>,
       <<"d","i","r","e","c","t","c","o","n","n","e","c","t">>,
       <<"t","r","a","n","s","i","t","g","a","t","e","w","a","y">>}],
    [category |-> "Database", pattern |->
      {<<"r","d","s">>, <<"a","u","r","o","r","a">>,
       <<"d","y","n","a","m","o","d","b">>,
       <<"e","l","a","s","t","i","c","a","c","h","e">>,
       <<"r","e","d","s","h","i","f","t">>,
       <<"d","o","c","u","m","e","n","t","d","b">>,
       <<"n","e","p","t","u","n","e">>}],
    [category |-> "GenAI", pattern |->
      {<<"s","a","g","e","m","a","k","e","r">>,
       <<"b","e","d","r","o","c","k">>,
       <<"c","o","m","p","r","e","h","e","n","d">>,
       <<"r","e","k","o","g","n","i","t","i","o","n">>,
       <<"p","o","l","l","y">>, <<"t","r","a","n","s","c","r","i","b","e">>,
       <<"t","r","a","n","s","l","a","t","e">>}]>>

\* Azure: MeterCategory -> OCI service category
AZURE_METER_CATEGORY_MAP ==
  <<[category |-> "Compute", pattern |->
      {<<"v","i","r","t","u","a","l"," ","m","a","c","h","i","n","e","s">>,
       <<"c","o","n","t","a","i","n","e","r"," ","i","n","s","t","a","n","c","e","s">>,
       <<"a","p","p"," ","s","e","r","v","i","c","e">>,
       <<"f","u","n","c","t","i","o","n","s">>,
       <<"k","u","b","e","r","n","e","t","e","s">>}],
    [category |-> "Storage", pattern |->
      {<<"s","t","o","r","a","g","e">>,
       <<"m","a","n","a","g","e","d"," ","d","i","s","k","s">>,
       <<"d","a","t","a"," ","l","a","k","e">>, <<"b","a","c","k","u","p">>}],
    [category |-> "Network", pattern |->
      {<<"b","a","n","d","w","i","d","t","h">>,
       <<"v","p","n"," ","g","a","t","e","w","a","y">>,
       <<"l","o","a","d"," ","b","a","l","a","n","c","e","r">>,
       <<"e","x","p","r","e","s","s","r","o","u","t","e">>,
       <<"t","r","a","f","f","i","c"," ","m","a","n","a","g","e","r">>,
       <<"c","d","n">>}],
    [category |-> "Database", pattern |->
      {<<"s","q","l"," ","d","a","t","a","b","a","s","e">>,
       <<"a","z","u","r","e"," ","d","a","t","a","b","a","s","e">>,
       <<"c","o","s","m","o","s"," ","d","b">>,
       <<"c","a","c","h","e"," ","f","o","r"," ","r","e","d","i","s">>,
       <<"s","y","n","a","p","s","e">>}],
    [category |-> "GenAI", pattern |->
      {<<"a","z","u","r","e"," ","o","p","e","n","a","i">>,
       <<"c","o","g","n","i","t","i","v","e"," ","s","e","r","v","i","c","e","s">>,
       <<"m","a","c","h","i","n","e"," ","l","e","a","r","n","i","n","g">>,
       <<"b","o","t"," ","s","e","r","v","i","c","e">>}]>>

\* GCP: service.description -> OCI service category
GCP_SERVICE_MAP ==
  <<[category |-> "Compute", pattern |->
      {<<"c","o","m","p","u","t","e"," ","e","n","g","i","n","e">>,
       <<"c","l","o","u","d"," ","r","u","n">>, <<"g","k","e">>,
       <<"a","p","p"," ","e","n","g","i","n","e">>}],
    [category |-> "Storage", pattern |->
      {<<"c","l","o","u","d"," ","s","t","o","r","a","g","e">>,
       <<"p","e","r","s","i","s","t","e","n","t"," ","d","i","s","k">>,
       <<"f","i","l","e","s","t","o","r","e">>}],
    [category |-> "Network", pattern |->
      {<<"n","e","t","w","o","r","k","i","n","g">>,
       <<"c","l","o","u","d"," ","c","d","n">>,
       <<"c","l","o","u","d"," ","a","r","m","o","r">>,
       <<"i","n","t","e","r","c","o","n","n","e","c","t">>}],
    [category |-> "Database", pattern |->
      {<<"c","l","o","u","d"," ","s","q","l">>,
       <<"b","i","g","q","u","e","r","y">>,
       <<"c","l","o","u","d"," ","s","p","a","n","n","e","r">>,
       <<"f","i","r","e","s","t","o","r","e">>,
       <<"b","i","g","t","a","b","l","e">>, <<"a","l","l","o","y","d","b">>}],
    [category |-> "GenAI", pattern |->
      {<<"v","e","r","t","e","x"," ","a","i">>,
       <<"a","i"," ","p","l","a","t","f","o","r","m">>,
       <<"d","o","c","u","m","e","n","t"," ","a","i">>,
       <<"t","r","a","n","s","l","a","t","i","o","n"," ","a","p","i">>,
       <<"v","i","s","i","o","n"," ","a","i">>}]>>

\* provider-agnostic keywords, each between word boundaries
GENERIC_KEYWORD_MAP ==
  <<[category |-> "Compute", pattern |->
      {<<"v","m">>, <<"c","o","m","p","u","t","e">>,
       <<"i","n","s","t","a","n","c","e">>, <<"c","p","u">>,
       <<"e","c","p","u">>, <<"o","c","p","u">>, <<"v","c","p","u">>,
       <<"s","e","r","v","e","r">>, <<"n","o","d","e">>}],
    [category |-> "Storage", pattern |->
      {<<"s","t","o","r","a","g","e">>, <<"d","i","s","k">>,
       <<"b","u","c","k","e","t">>, <<"b","l","o","b">>,
       <<"v","o","l","u","m","e">>, <<"e","b","s">>, <<"e","f","s">>,
       <<"f","s","s">>, <<"o","b","j","e","c","t"," ","s","t","o","r","e">>}],
    [category |-> "Network", pattern |->
      {<<"n","e","t","w","o","r","k">>,
       <<"b","a","n","d","w","i","d","t","h">>,
       <<"d","a","t","a","ANY?","t","r","a","n","s","f","e","r">>,
       <<"v","p","n">>, <<"n","a","t">>, <<"c","d","n">>, <<"d","n","s">>,
       <<"l","o","a","d","ANY?","b","a","l","a","n","c","e">>,
       <<"e","g","r","e","s","s">>}],
    [category |-> "Database", pattern |->
      {<<"d","a","t","a","b","a","s","e">>, <<"s","q","l">>, <<"r","d","s">>,
       <<"a","u","r","o","r","a">>, <<"c","o","s","m","o","s">>,
       <<"m","o","n","g","o","d","b">>,
       <<"p","o","s","t","g","r","e","s","q","l">>, <<"m","y","s","q","l">>,
       <<"r","e","d","i","s">>, <<"a","u","t","o","n","o","m","o","u","s">>}],
    [category |-> "GenAI", pattern |->
      {<<"g","e","n","a","i">>, <<"g","e","n","e","r","a","t","i","v","e">>,
       <<"l","l","m">>, <<"o","p","e","n","a","i">>,
       <<"b","e","d","r","o","c","k">>,
       <<"s","a","g","e","m","a","k","e","r">>, <<"v","e","r","t","e","x">>,
       <<"c","o","p","i","l","o","t">>,
       <<"c","o","g","n","i","t","i","v","e">>,
       <<"a","i","ANY?","s","e","r","v","i","c","e">>}]>>

\* the category of the first entry of the map whose pattern matches
RECURSIVE FirstCategory(_, _, _)
FirstCategory(map, text, words) ==
  IF Len(map) = 0 THEN "none"
  ELSE IF (IF words THEN TestWord(text, Head(map).pattern) ELSE Test(text, Head(map).pattern))
    THEN Head(map).category
  ELSE FirstCategory(Tail(map), text, words)

resolveCategory(rawCategory, productName, provider) ==
  LET combined == ToLowerCase(rawCategory \o <<" ">> \o productName)
      map      == IF provider = "aws" THEN AWS_USAGE_TYPE_MAP
                  ELSE IF provider = "azure" THEN AZURE_METER_CATEGORY_MAP
                  ELSE IF provider = "gcp" THEN GCP_SERVICE_MAP
                  ELSE << >>
      byProvider == FirstCategory(map, combined, FALSE)
      byKeyword  == FirstCategory(GENERIC_KEYWORD_MAP, combined, TRUE)
  IN  IF byProvider # "none" THEN byProvider
      ELSE IF byKeyword # "none" THEN byKeyword
      ELSE "Other"

\* amounts of money are counted in millionths, usage quantities in 1/2000:
\* the sample quantities are whole thousandths, so that their half is exact
CostScale == 1000000

QuantityScale == 2000

ARM_KEYWORDS ==
  {<<"g","r","a","v","i","t","o","n">>, <<"a","m","p","e","r","e">>,
   <<"a","1",".">>, <<"a","a","r","c","h","6","4">>, <<"a","r","m","6","4">>}

VCPU_KEYWORDS ==
  {<<"v","c","p","u">>, <<"v","c","o","r","e">>,
   <<"b","o","x","u","s","a","g","e">>, <<"e","c","2">>,
   <<"v","i","r","t","u","a","l","ANY?","m","a","c","h","i","n","e">>,
   <<"v","m","WB">>, <<"i","n","s","t","a","n","c","e">>, <<"c","o","r","e">>}

computeOciEquivalentRounded(usageQuantity, serviceCategory, productName, rawCategory) ==
  LET combined == ToLowerCase(productName \o <<" ">> \o rawCategory)
  IN  IF usageQuantity = Null THEN Null
      ELSE IF serviceCategory # "Compute" THEN usageQuantity
      ELSE IF TestWord(combined, ARM_KEYWORDS) THEN usageQuantity
      ELSE IF TestWord(combined, VCPU_KEYWORDS)
        THEN Num(ToFixed(usageQuantity.n, 2 * QuantityScale) * QuantityScale)
      ELSE usageQuantity

computeOciEquivalent(usageQuantity, serviceCategory, productName, rawCategory) ==
  LET combined == ToLowerCase(productName \o <<" ">> \o rawCategory)
  IN  IF usageQuantity = Null THEN Null
      ELSE IF serviceCategory # "Compute" THEN usageQuantity
      ELSE IF TestWord(combined, ARM_KEYWORDS) THEN usageQuantity
      ELSE IF TestWord(combined, VCPU_KEYWORDS) THEN Num(usageQuantity.n \div 2)
      ELSE usageQuantity

detectWindowsLicense(productName, productCode, rawCategory) ==
  Includes(ToLowerCase(productName \o <<" ">> \o productCode \o <<" ">> \o rawCategory),
           <<"w","i","n","d","o","w","s">>)

WINDOWS_OCI_SKU == "B88318"

\* the first n decimals of r / d for 0 <= r < d, and the remainder left
RECURSIVE FractionDigits(_, _, _)
FractionDigits(r, d, n) ==
  IF n = 0 THEN << >>
  ELSE <<(r * 10) \div d>> \o FractionDigits((r * 10) % d, d, n - 1)

RECURSIVE FractionRemainder(_, _, _)
FractionRemainder(r, d, n) ==
  IF n = 0 THEN r ELSE FractionRemainder((r * 10) % d, d, n - 1)

\* a sequence of decimals plus one in its last place; carry is the overflow
RECURSIVE PlusOne(_)
PlusOne(digits) ==
  IF Len(digits) = 0 THEN [digits |-> << >>, carry |-> 1]
  ELSE LET last == digits[Len(digits)]
           init == SubSeq(digits, 1, Len(digits) - 1)
       IN  IF last < 9 THEN [digits |-> Append(init, last + 1), carry |-> 0]
           ELSE [digits |-> Append(PlusOne(init).digits, 0), carry |-> PlusOne(init).carry]

\* a decimal number: sign, whole part and decimals
Decimal(negative, whole, decimals) ==
  [t |-> "decimal", negative |-> negative, whole |-> whole, decimals |-> decimals]

\* +(numerator / denominator).toFixed(places), denominator > 0
QuotientToFixed(numerator, denominator, places) ==
  LET mag     == IF numerator < 0 THEN -numerator ELSE numerator
      whole   == mag \div denominator
      digits  == FractionDigits(mag % denominator, denominator, places)
      rest    == FractionRemainder(mag % denominator, denominator, places)
      rounded == IF 2 * rest >= denominator THEN PlusOne(digits)
                 ELSE [digits |-> digits, carry |-> 0]
      isZero  == whole + rounded.carry = 0 /\ \A i \in 1..places : rounded.digits[i] = 0
  IN  Decimal(numerator < 0 /\ ~isZero, whole + rounded.carry, rounded.digits)

UNIT_PRICE_DECIMALS == 10

\* cost in 1/CostScale over quantity in 1/QuantityScale
deriveUnitPriceNonZeroGuard(item) ==
  IF item.costBeforeTax # Null /\ item.usageQuantity # Null /\ item.usageQuantity.n # 0
    THEN QuotientToFixed(IF item.usageQuantity.n < 0 THEN -item.costBeforeTax.n
                         ELSE item.costBeforeTax.n,
                         (CostScale \div QuantityScale)
                           * (IF item.usageQuantity.n < 0 THEN -item.usageQuantity.n
                              ELSE item.usageQuantity.n),
                         UNIT_PRICE_DECIMALS)
    ELSE Null

deriveUnitPrice(item) ==
  IF item.costBeforeTax # Null /\ item.usageQuantity # Null /\ item.usageQuantity.n > 0
    THEN QuotientToFixed(item.costBeforeTax.n,
                         (CostScale \div QuantityScale) * item.usageQuantity.n,
                         UNIT_PRICE_DECIMALS)
    ELSE Null

\* 0.13, in percent
BRL_TAX_RATE == 13

CurrencyBRL ==
  <<"B","R","L">>

\* toFixed(4) of an amount given in 1/(CostScale * scale), in 1/CostScale
ToFixed4(amount, scale) == ToFixed(amount, scale * (CostScale \div 10000)) * (CostScale \div 10000)

applyBrlTaxCaseSensitive(item) ==
  IF (IF item.currencyCode = Null THEN TRUE ELSE item.currencyCode.s # CurrencyBRL)
       \/ item.costBeforeTax = Null
    THEN [brlTaxAmount |-> Null, costAfterTax |-> item.costBeforeTax]
    ELSE LET brlTaxAmount == ToFixed4(item.costBeforeTax.n * BRL_TAX_RATE, 100)
         IN  [brlTaxAmount |-> Num(brlTaxAmount),
              costAfterTax |-> Num(ToFixed4(item.costBeforeTax.n + brlTaxAmount, 1))]

applyBrlTax(item) ==
  IF (IF item.currencyCode = Null THEN TRUE
      ELSE ToUpperCase(item.currencyCode.s) # CurrencyBRL)
       \/ item.costBeforeTax = Null
    THEN [brlTaxAmount |-> Null, costAfterTax |-> item.costBeforeTax]
    ELSE LET brlTaxAmount == ToFixed4(item.costBeforeTax.n * BRL_TAX_RATE, 100)
         IN  [brlTaxAmount |-> Num(brlTaxAmount),
              costAfterTax |-> Num(ToFixed4(item.costBeforeTax.n + brlTaxAmount, 1))]

\* a line item as the extractors return it; absent strings are empty
RawItem(serviceCategory, productName, productCode, usageQuantity, costBeforeTax, currencyCode) ==
  [serviceCategory |-> serviceCategory, productName |-> productName,
   productCode |-> productCode, usageQuantity |-> usageQuantity,
   costBeforeTax |-> costBeforeTax, currencyCode |-> currencyCode]

normalize(item, provider) ==
  LET serviceCategory   == resolveCategory(item.serviceCategory, item.productName, provider)
      isWindowsLicensed == detectWindowsLicense(item.productName, item.productCode,
                                                item.serviceCategory)
      tax               == applyBrlTax(item)
  IN  [rawCategory |-> item.serviceCategory, productName |-> item.productName,
       productCode |-> item.productCode, usageQuantity |-> item.usageQuantity,
       costBeforeTax |-> item.costBeforeTax, currencyCode |-> item.currencyCode,
       serviceCategory |-> serviceCategory,
       ociEquivalentQuantity |->
         computeOciEquivalent(item.usageQuantity, serviceCategory, item.productName,
                              item.serviceCategory),
       isGenerativeAI |-> serviceCategory = "GenAI",
       isWindowsLicensed |-> isWindowsLicensed,
       windowsSkuCode |-> IF isWindowsLicensed THEN Str(WINDOWS_OCI_SKU) ELSE Null,
       unitPrice |-> deriveUnitPrice(item),
       isPaidSku |-> TRUE,
       brlTaxAmount |-> tax.brlTaxAmount,
       costAfterTax |-> tax.costAfterTax]

\* product names, raw categories and currency codes of the sample line items
NameBoxUsage ==
  <<"B","o","x","U","s","a","g","e",":","t","3",".","l","a","r","g","e">>

NameGraviton ==
  <<"G","r","a","v","i","t","o","n"," ","c","6","g"," ","i","n","s","t","a",
    "n","c","e">>

NameA1 ==
  <<"a","1",".","m","e","d","i","u","m"," ","v","m">>

NameEbs ==
  <<"E","B","S"," ","v","o","l","u","m","e">>

NameAzureVm ==
  <<"V","i","r","t","u","a","l"," ","M","a","c","h","i","n","e","s"," ","D",
    "2">>

NameWindows ==
  <<"W","i","n","d","o","w","s"," ","S","e","r","v","e","r"," ","V","M">>

NameMisc ==
  <<"s","u","p","p","o","r","t">>

NameAbsent ==
  <<>>

ProductNames == {NameBoxUsage, NameGraviton, NameA1, NameEbs,
                 NameAzureVm, NameWindows, NameMisc, NameAbsent}

RawCategories ==
  {<< >>, <<"C","o","m","p","u","t","e">>}

CurrencyCodes ==
  {Null, Str(<<"U","S","D">>), Str(<<"B","R","L">>),
   Str(<<"b","r","l">>), Str(<<"B","r","l">>)}

Providers == {"aws", "azure", "gcp", "unknown"}

\* absent, 0, -1, 0.001, 1, 3, 1.501
UsageQuantities == {Null, Num(0), Num(-2000), Num(2), Num(2000), Num(6000), Num(3002)}

\* absent, 0, 0.000001, 1.234567, 10, -2.5
Costs == {Null, Num(0), Num(1), Num(1234567), Num(10000000), Num(-2500000)}

\* every name, category and provider with a few quantities; every quantity,
\* cost and currency with one name
NormalizeInputs ==
  {[item |-> RawItem(c, n, << >>, q, Num(10000000), Null), provider |-> p] :
     c \in RawCategories, n \in ProductNames, q \in {Null, Num(2000), Num(3002)},
     p \in Providers}
  \cup
  {[item |-> RawItem(<< >>, NameBoxUsage, << >>, q, c, k), provider |-> "aws"] :
     q \in UsageQuantities, c \in Costs, k \in CurrencyCodes}

\* ------------------------------------------------------------------------
\* CostSummaryService (cost-summary.service.ts).  Amounts are counted in
\* thousandths; the per-service and per-region aggregates and the billing
\* period are computed from the same items and do not enter the totals.
\* ------------------------------------------------------------------------
AmountScale == 1000

\* Math.round(n * 100) / 100: to the nearest hundredth, halves upwards
round2(n) == ((n + (AmountScale \div 200)) \div (AmountScale \div 100)) * (AmountScale \div 100)

RECURSIVE subtotalOf(_)
subtotalOf(items) ==
  IF items = << >> THEN 0
  ELSE LET c == Nullish(Head(items).costBeforeTax, Num(0))
       IN  c.n + subtotalOf(Tail(items))

currencySetOf(items) ==
  {items[i].currencyCode.s :
     i \in {j \in 1..Len(items) : items[j].currencyCode # Null
                                    /\ items[j].currencyCode.s # << >>}}

CurrencyUSD == <<"U", "S", "D">>

build(items, totalTax) ==
  LET subtotal        == subtotalOf(items)
      currencySet     == currencySetOf(items)
      roundedSubtotal == round2(subtotal)
      roundedTax      == IF totalTax # Null THEN Num(round2(totalTax.n)) ELSE Null
  IN  [subtotal     |-> Num(roundedSubtotal),
       totalTax     |-> roundedTax,
       grandTotal   |-> Num(round2(roundedSubtotal + Nullish(roundedTax, Num(0)).n)),
       currencyCode |-> IF Cardinality(currencySet) = 1
                          THEN Str(CHOOSE code \in currencySet : TRUE)
                          ELSE Str(CurrencyUSD)]

\* sample line items: absent cost, 0.004, 1.005, -0.015, with no currency code, '', USD or BRL
MaxItems == 2

SummaryCosts == {Null, Num(4), Num(1005), Num(-15)}

SummaryItems ==
  {[costBeforeTax |-> c, currencyCode |-> k] :
     c \in SummaryCosts, k \in {Null, Str(<< >>), Str(CurrencyUSD), Str(CurrencyBRL)}}

SummaryItemLists ==
  UNION {[1..n -> SummaryItems] : n \in 0..MaxItems}

\* no tax, 0, 0.004, 0.015
SummaryTaxes == {Null, Num(0), Num(4), Num(15)}

\* ------------------------------------------------------------------------
\* Regular expressions with character classes and repetition
\* ------------------------------------------------------------------------
\* A pattern is a sequence of tokens: a one-character literal, or
\*   "WB" \b         "END" $           "ANY?" .?        "SEP?" [\s_-]?
\*   "DIGIT" \d      "DIGIT*" \d*      "DIGIT+" \d+     "SPACE*" \s*
\*   "LETTER" [a-z]  "LETTER+" [a-z]+  "UPPER" [A-Z]
\*   "ALNUM*" [a-z0-9]*   "ALNUM+" [a-z0-9]+ (or [A-Za-z0-9]+)
\*   "ALNUMDASH*" [a-z0-9-]*   "NOTDOT+" [^.]+   "DASHWORDS*" (?:-[a-z]+)*
\*   "NOPOSTGRES" (?!.*postgres)
\* A case-insensitive expression is matched against the lower-cased text.
DigitCharacters == <<"0", "1", "2", "3", "4", "5", "6", "7", "8", "9">>

IsDigit(c) == \E k \in 1..10 : DigitCharacters[k] = c

IsLowerCase(c) == \E k \in 1..Len(LowerCaseLetters) : LowerCaseLetters[k] = c

IsUpperCase(c) == c \in DOMAIN LowerCaseOf

IsAlnum(c) == IsLowerCase(c) \/ IsUpperCase(c) \/ IsDigit(c)

\* the characters a class token stands for
InClass(token, c) ==
  CASE token \in {"DIGIT", "DIGIT*", "DIGIT+"}    -> IsDigit(c)
    [] token \in {"LETTER", "LETTER+"}            -> IsLowerCase(c)
    [] token = "UPPER"                            -> IsUpperCase(c)
    [] token \in {"ALNUM*", "ALNUM+"}             -> IsAlnum(c)
    [] token = "ALNUMDASH*"                       -> IsAlnum(c) \/ c = "-"
    [] token = "NOTDOT+"                          -> c # "."
    [] token = "SPACE*"                           -> c \in WhiteSpace
    [] token = "SEP?"                             -> c \in WhiteSpace \/ c \in {"_", "-"}
    [] token = "ANY?"                             -> c # "\n"
    [] OTHER                                      -> FALSE

\* the positions i..j a run of the class can reach from position i
RECURSIVE RunEnds(_, _, _)
RunEnds(s, i, token) ==
  IF i <= Len(s) /\ InClass(token, s[i]) THEN {i} \cup RunEnds(s, i + 1, token)
  ELSE {i}

\* the positions after zero or more "-letters" groups starting at position i
RECURSIVE DashWordEnds(_, _)
DashWordEnds(s, i) ==
  {i} \cup
  (IF i <= Len(s) /\ s[i] = "-"
     THEN UNION {DashWordEnds(s, j) : j \in RunEnds(s, i + 1, "LETTER+") \ {i + 1}}
     ELSE {})

\* "postgres" occurs at or after position i, on the same line
PostgresAhead(s, i) ==
  \E j \in i..Len(s) :
    /\ j + 7 <= Len(s)
    /\ SubSeq(s, j, j + 7) = <<"p", "o", "s", "t", "g", "r", "e", "s">>
    /\ \A k \in i..(j - 1) : s[k] # "\n"

\* the positions after a match of pattern[k..] that starts at position i
RECURSIVE Ends(_, _, _, _)
Ends(s, i, pattern, k) ==
  IF k > Len(pattern) THEN {i}
  ELSE LET token == pattern[k]
           after(js) == UNION {Ends(s, j, pattern, k + 1) : j \in js}
       IN  CASE token = "WB"  -> IF WordBoundary(s, i) THEN after({i}) ELSE {}
             [] token = "END" -> IF i = Len(s) + 1 THEN after({i}) ELSE {}
             [] token = "NOPOSTGRES" -> IF PostgresAhead(s, i) THEN {} ELSE after({i})
             [] token \in {"ANY?", "SEP?"} ->
                  after({i} \cup (IF i <= Len(s) /\ InClass(token, s[i]) THEN {i + 1} ELSE {}))
             [] token \in {"DIGIT", "LETTER", "UPPER"} ->
                  IF i <= Len(s) /\ InClass(token, s[i]) THEN after({i + 1}) ELSE {}
             [] token \in {"DIGIT*", "ALNUM*", "ALNUMDASH*", "SPACE*"} ->
                  after(RunEnds(s, i, token))
             [] token \in {"DIGIT+", "LETTER+", "ALNUM+", "NOTDOT+"} ->
                  after(RunEnds(s, i, token) \ {i})
             [] token = "DASHWORDS*" -> after(DashWordEnds(s, i))
             [] OTHER -> IF i <= Len(s) /\ s[i] = token THEN after({i + 1}) ELSE {}

Max(S) == CHOOSE x \in S : \A y \in S : y <= x

Min(S) == CHOOSE x \in S : \A y \in S : x <= y

\* the alternatives of an expression are tried in order at every position
RECURSIVE FirstAlternative(_, _, _, _)
FirstAlternative(s, i, alternatives, a) ==
  IF a > Len(alternatives) THEN 0
  ELSE IF Ends(s, i, alternatives[a], 1) # {} THEN a
  ELSE FirstAlternative(s, i, alternatives, a + 1)

Matches(s, alternatives) ==
  {i \in 1..(Len(s) + 1) : FirstAlternative(s, i, alternatives, 1) # 0}

\* RegExp.prototype.test; the string and the expression are evaluated once
TestAny(s, alternatives) ==
  \E subject \in {s} : \E expression \in {alternatives} :
    Matches(subject, expression) # {}

\* RegExp.prototype.exec: the leftmost match, of the first alternative that
\* matches there, as long as its repetitions can be; text is the string the
\* match is cut from, s the string matched (text, or text in lower case)
execAt(text, s, alternatives, start) ==
  Str(SubSeq(text, start,
             Max(Ends(s, start,
                      alternatives[FirstAlternative(s, start, alternatives, 1)], 1)) - 1))

Exec(text, s, alternatives) ==
  CHOOSE match \in
    {IF Matches(subject, expression) = {} THEN Null
     ELSE CHOOSE found \in {execAt(original, subject, expression, start) :
                              start \in {Min(Matches(subject, expression))}} : TRUE :
       original \in {text}, subject \in {s}, expression \in {alternatives}} : TRUE

\* ------------------------------------------------------------------------
\* Per-instance OCI SKU mapping tables (cloud-pricing.module.ts); prices in
\* 1/10000 USD
\* ------------------------------------------------------------------------
OciSkuDescriptor(partNumber, fallbackUnitPrice, instanceFamily, isArm) ==
  [partNumber |-> partNumber, unit |-> "OCPU-hours",
   fallbackUnitPrice |-> fallbackUnitPrice, instanceFamily |-> instanceFamily,
   isArm |-> isArm]

OCI_E4_FLEX == OciSkuDescriptor("B88298", 250, "VM.Standard.E4.Flex", FALSE)

OCI_OPT3_FLEX == OciSkuDescriptor("B89878", 540, "VM.Optimized3.Flex", FALSE)

OCI_A1_FLEX == OciSkuDescriptor("B94073", 100, "VM.Standard.A1.Flex", TRUE)

OCI_MYSQL == OciSkuDescriptor("B89021", 544, "MySQL Database Service", FALSE)

OCI_POSTGRESQL == OciSkuDescriptor("B91399", 544, "PostgreSQL Database Service", FALSE)

OCI_SQL_SERVER_STANDARD == OciSkuDescriptor("B91600", 3700, "SQL Server Standard", FALSE)

OCI_ORACLE_DB_SE2 == OciSkuDescriptor("B87905", 2188, "Oracle Database SE2", FALSE)

\* all family tables are case-insensitive and anchored at the start
AWS_FAMILY_TO_OCI_SKU ==
  <<[pattern |-> <<<<"a", "1">>, <<"t", "4", "g">>, <<"m", "6", "g">>, <<"m", "7", "g">>, <<"c", "6", "g">>, <<"c", "7", "g">>, <<"r", "6", "g">>,
                   <<"r", "7", "g">>, <<"g", "DIGIT+", "g">>, <<"i", "n", "f", "DIGIT+">>, <<"t", "r", "n", "DIGIT+">>>>,
     sku |-> OCI_A1_FLEX],
    [pattern |-> <<<<"c", "DIGIT">>, <<"h", "p", "c", "DIGIT">>>>, sku |-> OCI_OPT3_FLEX],
    [pattern |-> <<<<"t">>, <<"m">>, <<"r">>, <<"x">>, <<"z">>, <<"i">>, <<"d">>, <<"f">>, <<"g">>,
                   <<"p">>, <<"v", "t">>, <<"d", "l">>, <<"i", "m">>, <<"i", "s">>, <<"u">>>>,
     sku |-> OCI_E4_FLEX]>>

AWS_SIZE_TO_VCPU ==
  <<[size |-> <<"n", "a", "n", "o">>, vcpu |-> 2], [size |-> <<"m", "i", "c", "r", "o">>, vcpu |-> 2],
    [size |-> <<"s", "m", "a", "l", "l">>, vcpu |-> 2], [size |-> <<"m", "e", "d", "i", "u", "m">>, vcpu |-> 2],
    [size |-> <<"l", "a", "r", "g", "e">>, vcpu |-> 2], [size |-> <<"x", "l", "a", "r", "g", "e">>, vcpu |-> 4],
    [size |-> <<"2", "x", "l", "a", "r", "g", "e">>, vcpu |-> 8], [size |-> <<"3", "x", "l", "a", "r", "g", "e">>, vcpu |-> 12],
    [size |-> <<"4", "x", "l", "a", "r", "g", "e">>, vcpu |-> 16], [size |-> <<"6", "x", "l", "a", "r", "g", "e">>, vcpu |-> 24],
    [size |-> <<"8", "x", "l", "a", "r", "g", "e">>, vcpu |-> 32], [size |-> <<"9", "x", "l", "a", "r", "g", "e">>, vcpu |-> 36],
    [size |-> <<"1", "0", "x", "l", "a", "r", "g", "e">>, vcpu |-> 40], [size |-> <<"1", "2", "x", "l", "a", "r", "g", "e">>, vcpu |-> 48],
    [size |-> <<"1", "6", "x", "l", "a", "r", "g", "e">>, vcpu |-> 64], [size |-> <<"1", "8", "x", "l", "a", "r", "g", "e">>, vcpu |-> 72],
    [size |-> <<"2", "4", "x", "l", "a", "r", "g", "e">>, vcpu |-> 96], [size |-> <<"3", "2", "x", "l", "a", "r", "g", "e">>, vcpu |-> 128],
    [size |-> <<"4", "8", "x", "l", "a", "r", "g", "e">>, vcpu |-> 192], [size |-> <<"5", "6", "x", "l", "a", "r", "g", "e">>, vcpu |-> 224],
    [size |-> <<"9", "6", "x", "l", "a", "r", "g", "e">>, vcpu |-> 384], [size |-> <<"m", "e", "t", "a", "l">>, vcpu |-> 96],
    [size |-> <<"m", "e", "t", "a", "l", "-", "2", "4", "x", "l">>, vcpu |-> 96], [size |-> <<"m", "e", "t", "a", "l", "-", "3", "2", "x", "l">>, vcpu |-> 128],
    [size |-> <<"m", "e", "t", "a", "l", "-", "4", "8", "x", "l">>, vcpu |-> 192]>>

AZURE_FAMILY_TO_OCI_SKU ==
  <<[pattern |-> <<<<"s", "t", "a", "n", "d", "a", "r", "d", "_", "f">>>>, sku |-> OCI_OPT3_FLEX],
    [pattern |-> <<<<"s", "t", "a", "n", "d", "a", "r", "d", "_", "d", "DIGIT+", "p">>>>, sku |-> OCI_A1_FLEX],
    [pattern |-> <<<<"s", "t", "a", "n", "d", "a", "r", "d", "_", "e", "DIGIT+", "p">>>>, sku |-> OCI_A1_FLEX],
    [pattern |-> <<<<"s", "t", "a", "n", "d", "a", "r", "d", "_", "d">>, <<"s", "t", "a", "n", "d", "a", "r", "d", "_", "e">>, <<"s", "t", "a", "n", "d", "a", "r", "d", "_", "b">>, <<"s", "t", "a", "n", "d", "a", "r", "d", "_", "a">>,
                   <<"s", "t", "a", "n", "d", "a", "r", "d", "_", "l">>, <<"s", "t", "a", "n", "d", "a", "r", "d", "_", "m">>, <<"s", "t", "a", "n", "d", "a", "r", "d", "_", "n">>, <<"s", "t", "a", "n", "d", "a", "r", "d", "_", "h">>,
                   <<"s", "t", "a", "n", "d", "a", "r", "d", "_", "g">>, <<"s", "t", "a", "n", "d", "a", "r", "d", "_", "n", "d">>, <<"s", "t", "a", "n", "d", "a", "r", "d", "_", "n", "c">>, <<"s", "t", "a", "n", "d", "a", "r", "d", "_", "n", "v">>,
                   <<"s", "t", "a", "n", "d", "a", "r", "d", "_", "d", "c">>, <<"s", "t", "a", "n", "d", "a", "r", "d", "_", "e", "b">>, <<"s", "t", "a", "n", "d", "a", "r", "d", "_", "e", "p">>, <<"s", "t", "a", "n", "d", "a", "r", "d", "_", "d", "b">>,
                   <<"s", "t", "a", "n", "d", "a", "r", "d", "_", "d", "p">>, <<"s", "t", "a", "n", "d", "a", "r", "d", "_", "l", "s", "v">>, <<"s", "t", "a", "n", "d", "a", "r", "d", "_", "m", "s", "v">>, <<"s", "t", "a", "n", "d", "a", "r", "d", "_", "m", "v">>>>,
     sku |-> OCI_E4_FLEX]>>

GCP_FAMILY_TO_OCI_SKU ==
  <<[pattern |-> <<<<"t", "2", "a">>>>, sku |-> OCI_A1_FLEX],
    [pattern |-> <<<<"c", "2">>, <<"c", "2", "d">>, <<"c", "3">>, <<"h", "3">>, <<"n", "2", "-", "h", "i", "g", "h", "c", "p", "u">>>>, sku |-> OCI_OPT3_FLEX],
    [pattern |-> <<<<"n", "1">>, <<"n", "2">>, <<"n", "4">>, <<"e", "2">>, <<"m", "1">>, <<"m", "2">>, <<"m", "3">>, <<"a", "2">>, <<"g", "2">>,
                   <<"t", "2", "d">>>>,
     sku |-> OCI_E4_FLEX]>>

\* matched anywhere in the text, case-insensitive
DB_ENGINE_TO_OCI_SKU ==
  <<[pattern |-> <<<<"s", "q", "l", "SEP?", "s", "e", "r", "v", "e", "r", "SEP?", "s", "t", "a", "n", "d", "a", "r", "d">>, <<"s", "q", "l", "s", "t", "d">>, <<"m", "s", "s", "q", "l", "ANY?", "s", "t", "d">>>>,
     sku |-> OCI_SQL_SERVER_STANDARD],
    [pattern |-> <<<<"WB", "o", "r", "a", "c", "l", "e", "SEP?", "d", "b">>, <<"o", "r", "a", "c", "l", "e", "SEP?", "d", "a", "t", "a", "b", "a", "s", "e">>,
                   <<"o", "r", "a", "c", "l", "e", "ANY?", "s", "t", "a", "n", "d", "a", "r", "d">>>>,
     sku |-> OCI_ORACLE_DB_SE2],
    [pattern |-> <<<<"p", "o", "s", "t", "g", "r", "e", "s">>, <<"p", "g", "s", "q", "l">>, <<"a", "u", "r", "o", "r", "a", "SEP?", "p", "o", "s", "t", "g", "r", "e", "s">>>>,
     sku |-> OCI_POSTGRESQL],
    [pattern |-> <<<<"m", "y", "s", "q", "l">>, <<"m", "a", "r", "i", "a", "d", "b">>, <<"a", "u", "r", "o", "r", "a", "SEP?", "m", "y", "s", "q", "l">>, <<"a", "u", "r", "o", "r", "a", "NOPOSTGRES">>>>,
     sku |-> OCI_MYSQL],
    [pattern |-> <<<<"d", "y", "n", "a", "m", "o">>, <<"r", "e", "d", "i", "s">>, <<"e", "l", "a", "s", "t", "i", "c", "a", "c", "h", "e">>, <<"c", "o", "s", "m", "o", "s">>, <<"c", "a", "s", "s", "a", "n", "d", "r", "a">>,
                   <<"m", "o", "n", "g", "o">>, <<"d", "o", "c", "d", "b">>, <<"n", "e", "p", "t", "u", "n", "e">>, <<"b", "i", "g", "t", "a", "b", "l", "e">>, <<"s", "p", "a", "n", "n", "e", "r">>,
                   <<"f", "i", "r", "e", "s", "t", "o", "r", "e">>>>,
     sku |-> OCI_MYSQL]>>

\* ------------------------------------------------------------------------
\* InstanceResolverService (instance-resolver.service.ts)
\* ------------------------------------------------------------------------
\* group 1 of the expression; its optional usage-type prefix ends in [:\s]+
\* and so never moves the group
AWS_INSTANCE_PATTERN ==
  <<<<"LETTER", "ALNUM*", ".", "DIGIT*", "n", "a", "n", "o">>, <<"LETTER", "ALNUM*", ".", "DIGIT*", "m", "i", "c", "r", "o">>,
    <<"LETTER", "ALNUM*", ".", "DIGIT*", "s", "m", "a", "l", "l">>, <<"LETTER", "ALNUM*", ".", "DIGIT*", "m", "e", "d", "i", "u", "m">>,
    <<"LETTER", "ALNUM*", ".", "DIGIT*", "l", "a", "r", "g", "e">>, <<"LETTER", "ALNUM*", ".", "DIGIT*", "x", "l", "a", "r", "g", "e">>,
    <<"LETTER", "ALNUM*", ".", "DIGIT*", "m", "e", "t", "a", "l", "ALNUMDASH*">>>>

\* case-sensitive
AZURE_SKU_PATTERN ==
  <<<<"WB", "S", "t", "a", "n", "d", "a", "r", "d", "_", "UPPER", "ALNUM+", "_", "v", "DIGIT+", "WB">>, <<"WB", "S", "t", "a", "n", "d", "a", "r", "d", "_", "UPPER", "ALNUM+", "WB">>>>

GCP_MACHINE_PATTERN ==
  <<<<"WB", "LETTER", "ALNUM*", "DASHWORDS*", "-", "DIGIT+", "WB">>>>

AWS_SIZE_SUFFIX_PATTERN ==
  <<<<".", "DIGIT*", "n", "a", "n", "o", "SPACE*", "END">>, <<".", "DIGIT*", "m", "i", "c", "r", "o", "SPACE*", "END">>,
    <<".", "DIGIT*", "s", "m", "a", "l", "l", "SPACE*", "END">>, <<".", "DIGIT*", "m", "e", "d", "i", "u", "m", "SPACE*", "END">>,
    <<".", "DIGIT*", "l", "a", "r", "g", "e", "SPACE*", "END">>, <<".", "DIGIT*", "x", "l", "a", "r", "g", "e", "SPACE*", "END">>,
    <<".", "DIGIT*", "m", "e", "t", "a", "l", "ALNUMDASH*", "SPACE*", "END">>>>

\* pattern.exec(input) with a case-insensitive pattern: the text of group 1
matchPattern(input, pattern) == Exec(input, ToLowerCase(input), pattern)

\* parseInt(digits, 10)
RECURSIVE ParseInt(_)
ParseInt(digits) ==
  IF digits = << >> THEN 0
  ELSE 10 * ParseInt(SubSeq(digits, 1, Len(digits) - 1))
         + ((CHOOSE k \in 1..10 : DigitCharacters[k] = digits[Len(digits)]) - 1)

\* the digits a string starts with
LeadingDigits(s) == SubSeq(s, 1, Max(RunEnds(s, 1, "DIGIT*")) - 1)

\* AWS_SIZE_TO_VCPU[suffix] ?? null
SizeToVcpu(suffix) ==
  IF \E k \in 1..Len(AWS_SIZE_TO_VCPU) : AWS_SIZE_TO_VCPU[k].size = suffix
    THEN Num(AWS_SIZE_TO_VCPU[CHOOSE k \in 1..Len(AWS_SIZE_TO_VCPU) :
                                AWS_SIZE_TO_VCPU[k].size = suffix].vcpu)
    ELSE Null

\* the size group ends where the match does, but for trailing white space
extractAwsVcpuCount(instanceType) ==
  LET sizeMatch == Exec(ToLowerCase(instanceType), ToLowerCase(instanceType),
                        AWS_SIZE_SUFFIX_PATTERN)
  IN  IF sizeMatch = Null THEN Null
      ELSE SizeToVcpu(SubSeq(sizeMatch.s, 2,
                             Min({j \in 1..Len(sizeMatch.s) :
                                    \A k \in (j + 1)..Len(sizeMatch.s) :
                                      sizeMatch.s[k] \in WhiteSpace})))

extractAzureVcpuCount(armSkuName) ==
  LET match == Exec(armSkuName, ToLowerCase(armSkuName), <<<<"s", "t", "a", "n", "d", "a", "r", "d", "_", "LETTER+", "DIGIT+">>>>)
  IN  IF match = Null THEN Null
      ELSE Num(ParseInt(SubSeq(match.s, Max(RunEnds(ToLowerCase(match.s), 10, "LETTER+")),
                               Len(match.s))))

extractGcpVcpuCount(machineType) ==
  LET match == Exec(machineType, machineType, <<<<"-", "DIGIT+", "END">>>>)
  IN  IF TestAny(ToLowerCase(machineType), <<<<"e", "2", "-", "m", "i", "c", "r", "o">>>>) THEN Num(2)
      ELSE IF TestAny(ToLowerCase(machineType), <<<<"e", "2", "-", "s", "m", "a", "l", "l">>>>) THEN Num(2)
      ELSE IF TestAny(ToLowerCase(machineType), <<<<"e", "2", "-", "m", "e", "d", "i", "u", "m">>>>) THEN Num(2)
      ELSE IF match = Null THEN Null
      ELSE Num(ParseInt(Tail(match.s)))

\* the sku of the first entry whose pattern matches at the start
RECURSIVE FirstFamily(_, _, _, _)
FirstFamily(name, table, k, default) ==
  IF k > Len(table) THEN default
  ELSE IF \E subject \in {ToLowerCase(name)} : \E expression \in {table[k].pattern} :
            FirstAlternative(subject, 1, expression, 1) # 0
         THEN table[k].sku
  ELSE FirstFamily(name, table, k + 1, default)

matchAwsFamily(instanceType) == FirstFamily(instanceType, AWS_FAMILY_TO_OCI_SKU, 1, OCI_E4_FLEX)

matchAzureFamily(armSkuName) == FirstFamily(armSkuName, AZURE_FAMILY_TO_OCI_SKU, 1, OCI_E4_FLEX)

matchGcpFamily(machineType) == FirstFamily(machineType, GCP_FAMILY_TO_OCI_SKU, 1, OCI_E4_FLEX)

toOcpuCount(vcpuCount, isArm) ==
  IF vcpuCount = Null THEN 1
  ELSE IF isArm THEN vcpuCount.n
  ELSE IF (vcpuCount.n + 1) \div 2 > 1 THEN (vcpuCount.n + 1) \div 2 ELSE 1

isArmInstance(instanceType) ==
  TestAny(ToLowerCase(instanceType),
          <<<<"WB", "g", "r", "a", "v", "i", "t", "o", "n">>, <<"WB", "a", "m", "p", "e", "r", "e">>, <<"WB", "a", "1", ".">>, <<"WB", "a", "a", "r", "c", "h", "6", "4">>, <<"WB", "a", "r", "m", "6", "4">>,
            <<"WB", "t", "4", "g", ".">>, <<"WB", "m", "6", "g", ".">>, <<"WB", "c", "6", "g", ".">>, <<"WB", "r", "6", "g", ".">>, <<"WB", "t", "2", "a">>>>)

InstanceResolution(instanceType, vcpuCount, ocpuCount, ociSku) ==
  [t |-> "resolution", instanceType |-> instanceType, vcpuCount |-> vcpuCount,
   ocpuCount |-> ocpuCount, ociSku |-> ociSku,
   resolutionMethod |-> IF vcpuCount # Null THEN "instance-level" ELSE "family-level"]

\* the AWS CUR fields of rawData that are searched, in order
CUR_FIELDS == <<"lineItem/UsageType", "product/instanceType", "usageType", "instanceType">>

\* the for loop over curFields, from field k on, instanceType being null
RECURSIVE searchCurFields(_, _)
searchCurFields(rawData, k) ==
  IF k > Len(CUR_FIELDS) THEN Null
  ELSE LET field == rawData.fields[CUR_FIELDS[k]]
       IN  IF field.t = "string" /\ matchPattern(field.s, AWS_INSTANCE_PATTERN) # Null
             THEN matchPattern(field.s, AWS_INSTANCE_PATTERN)
             ELSE searchCurFields(rawData, k + 1)

resolveAws(productCode, productName, rawData) ==
  LET fromCode     == matchPattern(productCode, AWS_INSTANCE_PATTERN)
      fromName     == IF fromCode = Null THEN matchPattern(productName, AWS_INSTANCE_PATTERN)
                      ELSE fromCode
      instanceType == IF fromName = Null /\ rawData # Null THEN searchCurFields(rawData, 1)
                      ELSE fromName
  IN  IF instanceType = Null THEN Null
      ELSE LET isArm     == isArmInstance(instanceType.s)
               sku       == matchAwsFamily(instanceType.s)
               vcpuCount == extractAwsVcpuCount(instanceType.s)
           IN  InstanceResolution(instanceType, vcpuCount,
                                  toOcpuCount(vcpuCount, isArm \/ sku.isArm), sku)

resolveAzure(productCode, productName) ==
  LET combined   == productCode \o <<" ">> \o productName
      armSkuName == Nullish(Exec(productCode, productCode, AZURE_SKU_PATTERN),
                      Nullish(Exec(productName, productName, AZURE_SKU_PATTERN),
                              Exec(combined, combined, AZURE_SKU_PATTERN)))
  IN  IF armSkuName = Null THEN Null
      ELSE LET sku       == matchAzureFamily(armSkuName.s)
               vcpuCount == extractAzureVcpuCount(armSkuName.s)
           IN  InstanceResolution(armSkuName, vcpuCount,
                                  toOcpuCount(vcpuCount, sku.isArm), sku)

resolveGcp(productCode, productName) ==
  LET combined    == productCode \o <<" ">> \o productName
      machineType == Nullish(matchPattern(productCode, GCP_MACHINE_PATTERN),
                       Nullish(matchPattern(productName, GCP_MACHINE_PATTERN),
                               matchPattern(combined, GCP_MACHINE_PATTERN)))
  IN  IF machineType = Null THEN Null
      ELSE LET sku       == matchGcpFamily(machineType.s)
               vcpuCount == extractGcpVcpuCount(machineType.s)
           IN  InstanceResolution(machineType, vcpuCount,
                                  toOcpuCount(vcpuCount, sku.isArm), sku)

\* the entry of DB_ENGINE_TO_OCI_SKU whose pattern is the first to match; 0 if none
RECURSIVE FirstEngine(_, _)
FirstEngine(combined, k) ==
  IF k > Len(DB_ENGINE_TO_OCI_SKU) THEN 0
  ELSE IF TestAny(ToLowerCase(combined), DB_ENGINE_TO_OCI_SKU[k].pattern) THEN k
  ELSE FirstEngine(combined, k + 1)

resolveDatabase(productCode, productName) ==
  LET combined        == productName \o <<" ">> \o productCode
      engine          == FirstEngine(combined, 1)
      dbInstanceClass == matchPattern(combined, <<<<"WB", "d", "b", ".", "LETTER", "ALNUM*", ".", "ALNUM+", "WB">>>>)
      vcoreMatch      == matchPattern(combined, <<<<"DIGIT+", "SPACE*", "v", "c", "o", "r", "e">>>>)
      sizeMatch       == Exec(dbInstanceClass.s, dbInstanceClass.s, <<<<".", "NOTDOT+", "END">>>>)
      vcpuCount       == IF dbInstanceClass # Null
                           THEN SizeToVcpu(ToLowerCase(Tail(sizeMatch.s)))
                         ELSE IF vcoreMatch # Null
                           THEN Num(ParseInt(LeadingDigits(vcoreMatch.s)))
                         ELSE Null
  IN  IF engine # 0
        THEN InstanceResolution(
               Nullish(dbInstanceClass,
                       Str(SubSeq(combined, 1, IF Len(combined) < 60 THEN Len(combined) ELSE 60))),
               vcpuCount,
               IF vcpuCount # Null
                 THEN (IF (vcpuCount.n + 1) \div 2 > 1 THEN (vcpuCount.n + 1) \div 2 ELSE 1)
                 ELSE 1,
               DB_ENGINE_TO_OCI_SKU[engine].sku)
        ELSE InstanceResolution(Str(IF productCode # << >> THEN productCode ELSE productName),
                                Null, 1, OCI_MYSQL)

resolveGenericCompute(productCode, productName) ==
  LET combined     == productCode \o <<" ">> \o productName
      instanceType == matchPattern(combined, AWS_INSTANCE_PATTERN)
  IN  IF instanceType = Null THEN Null
      ELSE LET isArm     == isArmInstance(instanceType.s)
               sku       == matchAwsFamily(instanceType.s)
               vcpuCount == extractAwsVcpuCount(instanceType.s)
           IN  InstanceResolution(instanceType, vcpuCount,
                                  toOcpuCount(vcpuCount, isArm \/ sku.isArm), sku)

\* a lean UnifiedBilling document; absent strings are empty, rawData is Null
\* or an object
BillingRecord(provider, productCode, productName, serviceCategory, rawData) ==
  [provider |-> provider, productCode |-> productCode, productName |-> productName,
   serviceCategory |-> serviceCategory, rawData |-> rawData]

resolveForRecord(record) ==
  LET provider == ToLowerCase(record.provider)
  IN  IF record.serviceCategory = "Database"
        THEN resolveDatabase(record.productCode, record.productName)
      ELSE IF provider = <<"a", "w", "s">>
        THEN resolveAws(record.productCode, record.productName, record.rawData)
      ELSE IF provider = <<"a", "z", "u", "r", "e">>
        THEN resolveAzure(record.productCode, record.productName)
      ELSE IF provider = <<"g", "c", "p">>
        THEN resolveGcp(record.productCode, record.productName)
      ELSE resolveGenericCompute(record.productCode, record.productName)

\* sample product codes and names
InstanceTexts ==
  {<< >>, <<"s", "u", "p", "p", "o", "r", "t">>, <<"B", "o", "x", "U", "s", "a", "g", "e", ":", "m", "5", ".", "x", "l", "a", "r", "g", "e">>, <<"c", "5", ".", "2", "x", "l", "a", "r", "g", "e">>, <<"a", "1", ".", "m", "e", "d", "i", "u", "m">>, <<"t", "4", "g", ".", "n", "a", "n", "o">>,
   <<"q", "5", ".", "l", "a", "r", "g", "e">>, <<"m", "5", ".", "5", "l", "a", "r", "g", "e">>, <<"t", "2", "a", ".", "l", "a", "r", "g", "e">>, <<"S", "t", "a", "n", "d", "a", "r", "d", "_", "D", "4", "s", "_", "v", "3">>, <<"S", "t", "a", "n", "d", "a", "r", "d", "_", "D", "4", "p", "s", "_", "v", "5">>,
   <<"S", "t", "a", "n", "d", "a", "r", "d", "_", "F", "2", "s", "_", "v", "2">>, <<"S", "t", "a", "n", "d", "a", "r", "d", "_", "Q", "1">>, <<"n", "2", "-", "s", "t", "a", "n", "d", "a", "r", "d", "-", "8">>, <<"t", "2", "a", "-", "s", "t", "a", "n", "d", "a", "r", "d", "-", "1">>,
   <<"z", "z", "-", "c", "u", "s", "t", "o", "m", "-", "3">>, <<"d", "b", ".", "m", "5", ".", "l", "a", "r", "g", "e", " ", "m", "y", "s", "q", "l">>, <<"A", "u", "r", "o", "r", "a", " ", "P", "o", "s", "t", "g", "r", "e", "S", "Q", "L">>, <<"S", "Q", "L", " ", "D", "a", "t", "a", "b", "a", "s", "e", " ", "4", " ", "v", "C", "o", "r", "e">>}

InstanceNames == {<< >>, <<"A", "m", "a", "z", "o", "n", " ", "E", "C", "2", " ", "-", " ", "r", "5", ".", "l", "a", "r", "g", "e">>}

RecordProviders == {<< >>, <<"a", "w", "s">>, <<"A", "W", "S">>, <<"a", "z", "u", "r", "e">>, <<"g", "c", "p">>}

RawObject(usageType, instanceType) ==
  [t |-> "object",
   fields |-> [f \in {CUR_FIELDS[k] : k \in 1..Len(CUR_FIELDS)} |->
                 IF f = "usageType" THEN usageType
                 ELSE IF f = "instanceType" THEN instanceType
                 ELSE Null]]

RawDatas ==
  {Null, RawObject(Null, Str(<<"m", "5", ".", "l", "a", "r", "g", "e">>)), RawObject(Num(5), Str(<<"s", "u", "p", "p", "o", "r", "t">>))}

BillingRecords ==
  {BillingRecord(p, c, n, g, r) :
     p \in RecordProviders, c \in InstanceTexts, n \in InstanceNames,
     g \in {"Compute", "Database"}, r \in RawDatas}

\* ------------------------------------------------------------------------
\* In-process pricing caches: AwsPricingService, AzurePricingService,
\* GcpPricingService.  A price result is reduced to its unit price, in
\* 1/10000 USD.
\* ------------------------------------------------------------------------
PricingServices == {"aws", "azure", "gcp"}

\* instance types, ARM SKU names and machine types that are looked up
LookupTypes ==
  [aws |-> {"m5.xlarge", "c5.large"}, azure |-> {"Standard_D2s_v3", "Standard_F2s_v2"},
   gcp |-> {"n2-standard-8", "e2-medium"}]

\* `ec2:${instanceType}:${os}:${region}`, `vm:${armSkuName}:${region}:${currencyCode}`
\* and `compute:${machineType}:${region}`, with the default arguments
cacheKey(service, type) ==
  CASE service = "aws"   -> <<"ec2", type, "Linux", "us-east-1">>
    [] service = "azure" -> <<"vm", type, "eastus", "USD">>
    [] service = "gcp"   -> <<"compute", type, "us-central1">>

CacheKeys(service) == {cacheKey(service, type) : type \in LookupTypes[service]}

\* Map.prototype.has is false / the value Map.prototype.get returns; skuCache
\* holds whether the stored SKU list has elements
NoEntry == [has |-> FALSE, value |-> Null]

Entry(value) == [has |-> TRUE, value |-> value]

\* the on-demand price the provider's API lists for a type
ListedPrice(type) ==
  CASE type = "m5.xlarge" -> 1920 [] type = "c5.large" -> 850
    [] type = "Standard_D2s_v3" -> 960 [] type = "Standard_F2s_v2" -> 846
    [] type = "n2-standard-8" -> 316 [] type = "e2-medium" -> 218

\* what client.send answers: it throws, PriceList is empty, or one item
AwsAnswers == {"error", "empty", "item"}

\* what axios.get answers in query(): it throws, no Items, or one item
AzureAnswers == {"error", "empty", "item"}

\* what axios.get answers in getSkusForService(): it throws, no SKUs, or the
\* SKU list
GcpAnswers == {"error", "empty", "skus"}

\* the result getEc2OnDemandPrice stores and returns
awsResult(answer, type) ==
  IF answer = "item" THEN Num(ListedPrice(type)) ELSE Null

\* the result getVmPrice stores and returns; query() turns an error into []
azureResult(answer, type) ==
  IF answer = "item" THEN Num(ListedPrice(type)) ELSE Null

\* the result getComputeOnDemandPrice stores and returns for the SKU list
\* getSkusForService gave: none without SKUs
gcpResult(hasSkus, type) ==
  IF hasSkus THEN Num(ListedPrice(type)) ELSE Null

MaxLookups == 2

Lookups == 1..MaxLookups

IdleLookup == [pc |-> "idle", service |-> "none", type |-> "none", result |-> Null]

\* ------------------------------------------------------------------------
\* Sample records and price maps for the per-record estimate
\* ------------------------------------------------------------------------
\* source costs: absent, free, a credit of 2.0000, 0.3000, 3.0000, 3.0001,
\* 10.0000, and 0.300025, 3.000075 as a bill of more than four decimals has
\* them
EstimateCosts ==
  {Ticks(cost) : cost \in {NULL, 0, -20000, 3000, 30000, 30001, 100000}}
    \cup {Ticks(3000) + 1, Ticks(30000) + 3}

\* equivalent quantities, in halves: absent, 0, 6, 240, 5,000 GB, the free
\* allowance of 10,240 GB, 10,340 GB, 1,000,000
EstimateQuantities == {NULL, 0, 12, 480, 10000, 20480, 20680, 2000000}

EstimateRecords ==
  {Rec(cat, NULL, cost, qty, win, {}, FALSE, "aws") :
     cat \in {"Compute", "Storage", "Network", "Other"}, cost \in EstimateCosts,
     qty \in {q \in EstimateQuantities : q # 2000000}, win \in BOOLEAN}
  \cup {Rec(cat, NULL, cost, 2000000, FALSE, {}, FALSE, "aws") :
          cat \in {"Compute", "Storage", "Network", "Other"}, cost \in EstimateCosts}

\* the map fetchOciPricesByPartNumbers returns for the record's part numbers:
\* every fallback price, or a listed price for every part number
EstimatePrices(record) ==
  {[pn \in partNumbersNeeded(<<record>>) |-> fallbackByPartNumber(pn)],
   [pn \in partNumbersNeeded(<<record>>) |-> fallbackByPartNumber(pn) + 50]}

\* records of batches whose source costs sum to 0, to less and to more
SummaryRecords ==
  {Rec(cat, NULL, cost, qty, FALSE, {}, FALSE, "aws") :
     cat \in {"Compute", "Other"}, cost \in {Ticks(0), Ticks(-20000), Ticks(20000)},
     qty \in {NULL, 12}}

SummaryBatches ==
  {<<r>> : r \in SummaryRecords} \cup {<<r1, r2>> : r1 \in SummaryRecords, r2 \in SummaryRecords}

\* ------------------------------------------------------------------------
\* Numbers written as text
\* ------------------------------------------------------------------------
DigitValue(c) == (CHOOSE k \in 1..Len(DigitCharacters) : DigitCharacters[k] = c) - 1

\* the length of the longest prefix of s made of digits
DigitRun(s) ==
  LET stops == {i \in 1..Len(s) : ~IsDigit(s[i])}
  IN  IF stops = {} THEN Len(s) ELSE (CHOOSE i \in stops : \A j \in stops : i <= j) - 1

RECURSIVE DigitsValue(_)
DigitsValue(digits) ==
  IF Len(digits) = 0 THEN 0
  ELSE DigitsValue(SubSeq(digits, 1, Len(digits) - 1)) * 10 + DigitValue(digits[Len(digits)])

\* a finite number mantissa / 10^decimals, written without a trailing zero
\* decimal so that equal numbers are equal values
RECURSIVE Float(_, _)
Float(mantissa, decimals) ==
  IF decimals > 0 /\ mantissa % 10 = 0 THEN Float(mantissa \div 10, decimals - 1)
  ELSE IF decimals < 0 THEN Float(mantissa * 10, decimals + 1)
  ELSE [t |-> "number", mantissa |-> mantissa, decimals |-> decimals]

NaN == [t |-> "NaN"]

Infinity(negative) == [t |-> "Infinity", negative |-> negative]

\* s.replace(/<from>/g, to) for single characters
ReplaceAll(s, from, to) == [i \in 1..Len(s) |-> IF s[i] = from THEN to ELSE s[i]]

\* s.replace(/<pattern>/g, '') for a class of characters
RemoveAll(s, class) == SelectSeq(s, LAMBDA c : c \notin class)

\* the decimal literal at the start of body, which has the given numbers of
\* digits before and after the point: digits, a point and digits, a power
\* of ten
DecimalLiteral(negative, body, whole, fraction) ==
  LET afterWhole == SubSeq(body, whole + 1, Len(body))
      point      == Len(afterWhole) > 0 /\ afterWhole[1] = "."
      rest       == SubSeq(afterWhole, (IF point THEN 1 ELSE 0) + fraction + 1, Len(afterWhole))
      power      == IF Len(rest) > 0 /\ rest[1] \in {"e", "E"} THEN Tail(rest) ELSE << >>
      powerBody  == IF Len(power) > 0 /\ power[1] \in {"+", "-"} THEN Tail(power) ELSE power
      exponent   == (IF Len(power) > 0 /\ power[1] = "-" THEN -1 ELSE 1)
                      * DigitsValue(SubSeq(powerBody, 1, DigitRun(powerBody)))
      mantissa   == DigitsValue(SubSeq(body, 1, whole) \o SubSeq(afterWhole, 2, 1 + fraction))
  IN  IF Len(body) >= 8 /\ SubSeq(body, 1, 8) = <<"I", "n", "f", "i", "n", "i", "t", "y">>
        THEN Infinity(negative)
      ELSE IF whole + fraction = 0 THEN NaN
      ELSE Float(IF negative THEN -mantissa ELSE mantissa, fraction - exponent)

UnsignedLiteral(negative, body) ==
  CHOOSE n \in
    {DecimalLiteral(negative, body, whole,
                    IF whole < Len(body) /\ body[whole + 1] = "."
                      THEN DigitRun(SubSeq(body, whole + 2, Len(body))) ELSE 0) :
       whole \in {DigitRun(body)}} : TRUE

SignedLiteral(s) ==
  CHOOSE n \in
    {UnsignedLiteral(Len(s) > 0 /\ s[1] = "-", body) :
       body \in {IF Len(s) > 0 /\ s[1] \in {"+", "-"} THEN Tail(s) ELSE s}} : TRUE

\* String.prototype.trimStart
TrimStart(s) ==
  LET kept == {i \in 1..Len(s) : s[i] \notin WhiteSpace}
  IN  IF kept = {} THEN << >>
      ELSE SubSeq(s, CHOOSE i \in kept : \A j \in kept : i <= j, Len(s))

\* parseFloat: the longest prefix that is a decimal literal, after leading
\* white space and a sign; NaN when there is none
ParseFloat(string) ==
  CHOOSE n \in {SignedLiteral(s) : s \in {TrimStart(string)}} : TRUE

\* ------------------------------------------------------------------------
\* CsvExtractorService.normalizeRow: cost and unit price of a row
\*   a row is the sequence of its columns [name, value] in file order
\* ------------------------------------------------------------------------
COST_KEYS ==
  <<<<"c","o","s","t","b","e","f","o","r","e","t","a","x">>,
    <<"u","n","b","l","e","n","d","e","d","c","o","s","t">>,
    <<"p","r","e","t","a","x","c","o","s","t">>,
    <<"b","l","e","n","d","e","d","c","o","s","t">>,
    <<"t","o","t","a","l","c","o","s","t">>,
    <<"c","o","s","t",".","a","m","o","u","n","t">>,
    <<"e","n","c","a","r","g","o","s","/","c","r","é","d","i","t","o","s">>,
    <<"e","n","c","a","r","g","o","s","/","c","r","e","d","i","t","o","s">>,
    <<"e","n","c","a","r","g","o","s"," ","c","r","é","d","i","t","o","s">>,
    <<"p","r","e","ç","o"," ","e","f","e","t","i","v","o">>,
    <<"p","r","e","c","o"," ","e","f","e","t","i","v","o">>,
    <<"p","r","e","ç","o"," ","d","e"," ","p","a","y","g">>,
    <<"p","r","e","c","o"," ","d","e"," ","p","a","y","g">>,
    <<"t","o","t","a","l">>,
    <<"c","o","s","t">>>>

UNIT_PRICE_KEYS ==
  <<<<"u","n","i","t","p","r","i","c","e">>,
    <<"b","l","e","n","d","e","d","r","a","t","e">>,
    <<"u","n","b","l","e","n","d","e","d","r","a","t","e">>,
    <<"p","r","e","ç","o"," ","e","f","e","t","i","v","o">>,
    <<"p","r","e","c","o"," ","e","f","e","t","i","v","o">>,
    <<"p","r","e","ç","o"," ","d","e"," ","p","a","y","g">>,
    <<"p","r","e","c","o"," ","d","e"," ","p","a","y","g">>>>

\* parseNum of the CSV extractor, for the strings a row holds
parseNumCsv(val) ==
  IF val = << >> THEN Null
  ELSE CHOOSE r \in {IF n = NaN THEN Null ELSE n :
                      n \in {ParseFloat(Trim(ReplaceAll(val, ",", ".")))}} : TRUE

getCostAccepts(lx, key) ==
  /\ Includes(lx, key)
  /\ ~EndsWith(lx, <<"c", "u", "r", "r", "e", "n", "c", "y">>)
  /\ ~EndsWith(lx, <<"m", "o", "e", "d", "a">>)
  /\ ~EndsWith(lx, <<" ", "c", "u", "r", "r", "e", "n", "c", "y">>)

getUnitPriceAccepts(lx, key) ==
  /\ Includes(lx, key)
  /\ ~EndsWith(lx, <<"c", "u", "r", "r", "e", "n", "c", "y">>)
  /\ ~EndsWith(lx, <<" ", "c", "u", "r", "r", "e", "n", "c", "y">>)

\* the test the find of getter applies to a column name for a key
Accepts(getter, lx, key) ==
  IF getter = "getCost" THEN getCostAccepts(lx, key) ELSE getUnitPriceAccepts(lx, key)

\* the first column in file order that getter accepts for key, or 0
FindColumn(row, getter, key) ==
  CHOOSE k \in
    {IF matching = {} THEN 0 ELSE CHOOSE i \in matching : \A j \in matching : i <= j :
       matching \in {{i \in 1..Len(row) :
                        Accepts(getter, Trim(ToLowerCase(row[i].name)), key)}}} : TRUE

\* for (const key of keys) { k = find(...); if (k) { n = parseNum(row[k]); if (n != null) return n } }
FirstNumber(row, keys, getter) ==
  LET number(i) ==
        CHOOSE n \in {IF k = 0 THEN Null ELSE parseNumCsv(row[k].value) :
                        k \in {FindColumn(row, getter, keys[i])}} : TRUE
  IN  CHOOSE r \in
        {IF \A i \in 1..Len(keys) : numbers[i] = Null THEN Null
         ELSE numbers[CHOOSE i \in 1..Len(keys) :
                        /\ numbers[i] # Null
                        /\ \A j \in 1..(i - 1) : numbers[j] = Null] :
           numbers \in {[i \in 1..Len(keys) |-> number(i)]}} : TRUE

getCost(row) == FirstNumber(row, COST_KEYS, "getCost")

getUnitPrice(row) == FirstNumber(row, UNIT_PRICE_KEYS, "getUnitPrice")

\* columns of billing exports: value columns and the currency columns
\* beside them, which hold a currency code in letters or in digits
CsvColumns ==
  {[name |-> <<"T","o","t","a","l">>,
    value |-> <<"1","0","0",".","5","0">>],
   [name |-> <<"T","o","t","a","l"," ","C","u","r","r","e","n","c","y">>,
    value |-> <<"U","S","D">>],
   [name |-> <<"T","o","t","a","l"," ","M","o","e","d","a">>,
    value |-> <<"9","8","6">>],
   [name |-> <<"P","r","e","ç","o"," ","E","f","e","t","i","v","o">>,
    value |-> <<"1","2",",","5">>],
   [name |-> <<"P","r","e","ç","o"," ","E","f","e","t","i","v","o"," ","C","u","r","r",
  "e","n","c","y">>,
    value |-> <<"B","R","L">>],
   [name |-> <<"P","r","e","ç","o"," ","E","f","e","t","i","v","o"," ","M","o","e","d",
  "a">>,
    value |-> <<"B","R","L">>],
   [name |-> <<"U","n","i","t","P","r","i","c","e">>,
    value |-> <<"0",".","2","5">>],
   [name |-> <<"U","n","i","t","P","r","i","c","e"," ","C","u","r","r","e","n","c","y">>,
    value |-> <<"8","4","0">>],
   [name |-> <<"P","r","e","ç","o"," ","d","e"," ","P","A","Y","G"," ","M","o","e","d",
  "a">>,
    value |-> <<"9","8","6">>],
   [name |-> <<"Q","u","a","n","t","i","t","y">>,
    value |-> <<"3">>]}

\* rows of up to three columns, in every order
CsvRows ==
  {<<a>> : a \in CsvColumns}
    \cup {r \in {<<a, b>> : a \in CsvColumns, b \in CsvColumns} : r[1] # r[2]}
    \cup {r \in {<<a, b, d>> : a \in {x \in CsvColumns : Len(x.name) > 9},
                              b \in CsvColumns, d \in CsvColumns} :
            r[1] # r[2] /\ r[1] # r[3] /\ r[2] # r[3]}

\* ------------------------------------------------------------------------
\* Provider detection
\* ------------------------------------------------------------------------
AWS_INDICATORS ==
  <<<<"l","i","n","e","i","t","e","m","/","u","s","a","g","e","t","y","p","e">>,
   <<"l","i","n","e","i","t","e","m","/","u","n","b","l","e","n","d","e","d",
  "c","o","s","t">>,
   <<"p","r","o","d","u","c","t","/","r","e","g","i","o","n">>,
   <<"p","r","o","d","u","c","t","/","s","k","u">>,
   <<"b","i","l","l","/","b","i","l","l","i","n","g","p","e","r","i","o","d">>,
   <<"a","w","s","_","c","u","r">>,
   <<"a","m","a","z","o","n">>>>

AZURE_INDICATORS ==
  <<<<"m","e","t","e","r","c","a","t","e","g","o","r","y">>,
   <<"p","r","e","t","a","x","c","o","s","t">>,
   <<"r","e","s","o","u","r","c","e","g","r","o","u","p">>,
   <<"a","r","m","r","e","g","i","o","n","n","a","m","e">>,
   <<"a","r","m","s","k","u","n","a","m","e">>,
   <<"a","z","u","r","e">>,
   <<"m","i","c","r","o","s","o","f","t">>,
   <<"e","n","c","a","r","g","o","s","/","c","r">>,
   <<"p","r","e","ç","o"," ","d","e"," ","p","a","y","g">>,
   <<"t","a","x","a"," ","d","e"," ","c","â","m","b","i","o">>,
   <<"s","e","ç","ã","o"," ","d","e"," ","f","a","t","u","r","a">>>>

GCP_INDICATORS ==
  <<<<"s","e","r","v","i","c","e",".","d","e","s","c","r","i","p","t","i","o",
  "n">>,
   <<"c","o","s","t",".","a","m","o","u","n","t">>,
   <<"p","r","o","j","e","c","t",".","i","d">>,
   <<"g","c","p">>,
   <<"g","o","o","g","l","e"," ","c","l","o","u","d">>>>

OCI_INDICATORS ==
  <<<<"o","r","a","c","l","e">>,
   <<"o","c","i">>,
   <<"c","o","m","p","a","r","t","m","e","n","t">>,
   <<"o","c","p","u">>>>

\* arr.some((i) => text.includes(i))
IncludesSome(text, arr) == \E k \in 1..Len(arr) : Includes(text, arr[k])

detectFromFileName(fileName) ==
  LET lower == ToLowerCase(fileName)
  IN  IF IncludesSome(lower, AWS_INDICATORS) THEN "aws"
      ELSE IF IncludesSome(lower, AZURE_INDICATORS) THEN "azure"
      ELSE IF IncludesSome(lower, GCP_INDICATORS) THEN "gcp"
      ELSE IF IncludesSome(lower, OCI_INDICATORS) THEN "oci"
      ELSE "unknown"

detectFromColumnNames(columns) ==
  LET lower == [i \in 1..Len(columns) |-> Trim(ToLowerCase(columns[i]))]
      has(arr) == \E k \in 1..Len(arr) : \E i \in 1..Len(lower) :
                    Includes(lower[i], arr[k]) \/ Includes(arr[k], lower[i])
  IN  IF has(<<AWS_INDICATORS[1], AWS_INDICATORS[2], AWS_INDICATORS[3]>>) THEN "aws"
      ELSE IF has(<<AZURE_INDICATORS[1], AZURE_INDICATORS[2], AZURE_INDICATORS[4]>>) THEN "azure"
      ELSE IF has(<<GCP_INDICATORS[1], GCP_INDICATORS[2], GCP_INDICATORS[3]>>) THEN "gcp"
      ELSE IF has(<<OCI_INDICATORS[3], OCI_INDICATORS[4], OCI_INDICATORS[1]>>) THEN "oci"
      ELSE "unknown"

\* CsvExtractorService.extract: the provider of a file whose first record
\* has the given columns (no column: no record)
extractCsv(fileName, columns) ==
  LET providerDetected == detectFromFileName(fileName)
      fromCols == IF Len(columns) > 0 THEN detectFromColumnNames(columns) ELSE "unknown"
  IN  IF providerDetected # "unknown" THEN providerDetected ELSE fromCols

\* PdfExtractorService.extract: the provider of a document with the given text
extractPdf(fileName, text) ==
  LET providerDetected == detectFromFileName(fileName)
      fromText    == detectFromColumnNames(<< >>)
      lower       == ToLowerCase(text)
      fromContent ==
        IF Includes(lower, <<"a","m","a","z","o","n">>) \/ Includes(lower, <<"l","i","n","e","i","t","e","m">>)
          THEN "aws"
        ELSE IF Includes(lower, <<"a","z","u","r","e">>) \/ Includes(lower, <<"m","i","c","r","o","s","o","f","t">>)
                  \/ Includes(lower, <<"m","e","t","e","r">>)
          THEN "azure"
        ELSE IF Includes(lower, <<"g","o","o","g","l","e">>) \/ Includes(lower, <<"g","c","p">>)
          THEN "gcp"
        ELSE IF Includes(lower, <<"o","r","a","c","l","e">>) \/ Includes(lower, <<"o","c","i">>)
          THEN "oci"
        ELSE "unknown"
  IN  IF providerDetected # "unknown" THEN providerDetected
      ELSE IF fromContent # "unknown" THEN fromContent
      ELSE fromText

\* TextractService.inferProvider
inferProvider(allText, fileName) ==
  LET text == ToLowerCase(allText \o <<" ">> \o fileName)
  IN  IF IncludesSome(text, <<<<"a","m","a","z","o","n">>, <<"a","w","s">>, <<"a","w","s","-">>, <<"l","i","n","e","i","t","e","m">>>>)
        THEN "aws"
      ELSE IF IncludesSome(text, <<<<"a","z","u","r","e">>,
                                   <<"m","i","c","r","o","s","o","f","t">>,
                                   <<"e","n","c","a","r","g","o","s">>,
                                   <<"f","a","m","í","l","i","a"," ","d","o"," ","p","r","o","d","u","t","o">>,
                                   <<"f","a","m","i","l","i","a"," ","d","o"," ","p","r","o","d","u","t","o">>,
                                   <<"t","a","x","a"," ","d","e"," ","c","â","m","b","i","o">>>>)
        THEN "azure"
      ELSE IF IncludesSome(text, <<<<"g","o","o","g","l","e">>, <<"g","c","p">>>>) THEN "gcp"
      ELSE IF IncludesSome(text, <<<<"o","r","a","c","l","e">>, <<"o","c","i">>>>) THEN "oci"
      ELSE "unknown"

\* file names, first-record columns and document texts of billing files
ProviderFileNames ==
  {<<"a","z","u","r","e","-","i","n","v","o","i","c","e",".","p","d","f">>,
   <<"a","m","a","z","o","n","-","b","i","l","l",".","c","s","v">>,
   <<"g","c","p","_","e","x","p","o","r","t",".","c","s","v">>,
   <<"o","r","a","c","l","e",".","p","d","f">>,
   <<"r","e","p","o","r","t",".","c","s","v">>}

ProviderColumns ==
  {<< >>,
   <<<<"l","i","n","e","I","t","e","m","/","U","s","a","g","e","T","y","p","e">>,
     <<"l","i","n","e","I","t","e","m","/","U","n","b","l","e","n","d","e","d",
  "C","o","s","t">>>>,
   <<<<"M","e","t","e","r","C","a","t","e","g","o","r","y">>, <<"P","r","e","T","a","x","C","o","s","t">>>>,
   <<<<"D","a","t","e">>, <<"V","a","l","u","e">>>>}

ProviderTexts ==
  {<<"A","m","a","z","o","n"," ","W","e","b"," ","S","e","r","v","i","c","e",
  "s",","," ","I","n","c",".">>,
   <<"M","i","c","r","o","s","o","f","t"," ","A","z","u","r","e">>,
   <<"G","o","o","g","l","e"," ","C","l","o","u","d">>,
   <<"I","n","v","o","i","c","e"," ","4","2">>,
   << >>}

\* ------------------------------------------------------------------------
\* TextractService.parseNum / OciDocumentAiService.parseNum
\* ------------------------------------------------------------------------
IsLetter(c) == IsLowerCase(c) \/ IsUpperCase(c)

\* s.replace(/^[A-Z]{3}\s*/i, '')
StripCurrencyPrefix(s) ==
  IF Len(s) >= 3 /\ IsLetter(s[1]) /\ IsLetter(s[2]) /\ IsLetter(s[3])
    THEN LET rest == SubSeq(s, 4, Len(s))
             kept == {i \in 1..Len(rest) : rest[i] \notin WhiteSpace}
         IN  IF kept = {} THEN << >>
             ELSE SubSeq(rest, CHOOSE i \in kept : \A j \in kept : i <= j, Len(rest))
    ELSE s

parseNum(s) ==
  IF Len(s) = 0 THEN Null
  ELSE CHOOSE r \in
         {IF n = NaN THEN Null ELSE n :
            n \in {ParseFloat(SelectSeq(ReplaceAll(RemoveAll(StripCurrencyPrefix(s), {"."}),
                                                   ",", "."),
                                        LAMBDA c : IsDigit(c) \/ c \in {".", "-"}))}} : TRUE

\* amounts as invoices print them, with the number each stands for: U.S.
\* format (decimal point, comma thousands), Brazilian format (decimal comma,
\* dot thousands), and fields that hold no number
AmountTexts ==
  {[text |-> <<"1",",","2","3","4",".","5","6">>,
    format |-> "US", value |-> Float(123456, 2)],
   [text |-> <<"9",".","9","9">>,
    format |-> "US", value |-> Float(999, 2)],
   [text |-> <<"U","S","D"," ","1",",","2","3","4",".","5","6">>,
    format |-> "US", value |-> Float(123456, 2)],
   [text |-> <<"0",".","5">>,
    format |-> "US", value |-> Float(5, 1)],
   [text |-> <<"1",",","0","0","0">>,
    format |-> "US", value |-> Float(1000, 0)],
   [text |-> <<"-","1","2",".","5","0">>,
    format |-> "US", value |-> Float(-125, 1)],
   [text |-> <<"1","2">>,
    format |-> "US", value |-> Float(12, 0)],
   [text |-> <<"U","S","D"," ","7">>,
    format |-> "US", value |-> Float(7, 0)],
   [text |-> <<"$"," ","1",",","2","5","0",".","0","0">>,
    format |-> "US", value |-> Float(1250, 0)],
   [text |-> <<"9",".","6","2","9",",","1","9">>,
    format |-> "BR", value |-> Float(962919, 2)],
   [text |-> <<"B","R","L"," ","3","8",".","2","0","6",",","3","5">>,
    format |-> "BR", value |-> Float(3820635, 2)],
   [text |-> <<"1",".","2","3","4">>,
    format |-> "BR", value |-> Float(1234, 0)],
   [text |-> <<"0",",","5">>,
    format |-> "BR", value |-> Float(5, 1)],
   [text |-> <<"R","$"," ","1","0",",","0","0">>,
    format |-> "BR", value |-> Float(10, 0)],
   [text |-> <<"-","1","2",",","5","0">>,
    format |-> "BR", value |-> Float(-125, 1)],
   [text |-> <<"1","2">>,
    format |-> "BR", value |-> Float(12, 0)],
   [text |-> <<"b","r","l","7",",","2","5">>,
    format |-> "BR", value |-> Float(725, 2)],
   [text |-> << >>,
    format |-> "none", value |-> Null],
   [text |-> <<"N","/","A">>,
    format |-> "none", value |-> Null],
   [text |-> <<"-">>,
    format |-> "none", value |-> Null],
   [text |-> <<"a","b","c">>,
    format |-> "none", value |-> Null],
   [text |-> <<"U","S","D">>,
    format |-> "none", value |-> Null],
   [text |-> <<"-","-">>,
    format |-> "none", value |-> Null],
   [text |-> <<"n",".","d",".">>,
    format |-> "none", value |-> Null]}

\* ------------------------------------------------------------------------
\* State
\* ------------------------------------------------------------------------
VARIABLES
  upload,          \* the DocumentUpload document: [status, errorMessage, storagePath]; status "none" = no document
  unifiedBilling,  \* the UnifiedBilling documents of the upload, in insertion order
  lineItems,       \* number of DocumentLineItem documents of the upload
  modeling,        \* the OciCostModeling documents of the upload, in insertion order
  run,             \* the model() invocations: position, local variables, result
  calls,           \* number of model() invocations started
  returned,        \* summary and unit prices of every completed model() invocation, in order
  pricingCalls,    \* number of pricing lookups (repository and live API) made so far
  retrieved,       \* the answer of the last getByUploadId()
  del,             \* the deleteUpload() invocation: position and pending deleteMany calls
  overlap,         \* history: some model() ran while another model() or deleteUpload() ran
  ingest,          \* the processFile() invocation
  calc,            \* the last call of a side-effect-free method: its name, arguments and result
  cache,           \* the Map of each pricing service: cache key -> [has, value]
  skuCache,        \* GcpPricingService.skuCache of the Compute Engine service: [has, value]
  lookup           \* the price lookups in flight: position, service, type, result

vars == <<upload, unifiedBilling, lineItems, modeling, run, calls, returned,
          pricingCalls, retrieved, del, overlap, ingest, calc, cache, skuCache, lookup>>

Runs == 1..MaxRuns

NoMessage == << >>

IdleRun == [pc |-> "idle", records |-> << >>, lookups |-> << >>, ociPrices |-> << >>,
            result |-> emptyResult]

NoRetrieval == [found |-> FALSE, result |-> emptyResult]

\* no DocumentUpload document
NoUpload == [status |-> "none", errorMessage |-> NoMessage, storagePath |-> NoMessage]

\* the id MongoDB gives the upload
UploadId == <<"i", "d">>

\* no side-effect-free method called yet
NoCall == [method |-> "none", args |-> << >>, result |-> << >>]

IdleIngest ==
  [pc |-> "idle", file |-> NoFile, extractor |-> "auto", geminiAvailable |-> FALSE,
   textractAvailable |-> FALSE, fileType |-> "none", backend |-> "none",
   items |-> << >>, failedAt |-> "none", err |-> NoError, rejection |-> NoError]

\* ------------------------------------------------------------------------
\* Billing batches a completed upload can hold
\* ------------------------------------------------------------------------
\* amounts stay below 20.0000 so that every product fits TLC's integers
\* 6.0000 for 120 OCPU-hours, x86 compute on AWS
RecCompute == Rec("Compute", Ticks(60000), Ticks(60000), 240, FALSE, {}, FALSE, "aws")
\* Windows compute without a quantity; costAfterTax absent
RecWindows == Rec("Compute", Ticks(NULL), Ticks(50000), NULL, TRUE, {}, TRUE, "aws")
\* Windows compute with a quantity (40 OCPU-hours for 6.0000)
RecWindowsQty == Rec("Compute", Ticks(60000), Ticks(60000), 80, TRUE, {}, FALSE, "unknown")
\* miscellaneous usage
RecOther == Rec("Other", Ticks(20000), Ticks(20000), 20, FALSE, {}, FALSE, "aws")
\* a free item
RecFree == Rec("Other", Ticks(0), Ticks(0), 10, FALSE, {}, FALSE, "unknown")
\* PostgreSQL database, 30 OCPU-hours for 3.0000
RecPostgres == Rec("Database", Ticks(30000), Ticks(30000), 60, FALSE, {"postgres", "mysql"}, FALSE, "aws")

Batches ==
  { <<RecCompute>>,
    <<RecCompute, RecOther, RecWindows>>,
    <<RecFree, RecWindowsQty>>,
    <<RecPostgres, RecPostgres>> }

RaceBatches == { <<RecCompute, RecOther>> }

\* what the pricing repository / the live pricing API can answer for a SKU:
\* the call throws, finds nothing, finds a price of 0, finds a positive price
AnswerKinds == {"error", "none", "zero", "price"}

RepoAnswer(pn, kind) ==
  CASE kind = "error" -> Answer("error", 0)
    [] kind = "none"  -> Answer("none", 0)
    [] kind = "zero"  -> Answer("price", 0)
    [] kind = "price" -> Answer("price", CatalogFallback(pn) + 20)

LiveAnswer(pn, kind) ==
  CASE kind = "error" -> Answer("error", 0)
    [] kind = "none"  -> Answer("none", 0)
    [] kind = "zero"  -> Answer("price", 0)
    [] kind = "price" -> Answer("price", CatalogFallback(pn) + 50)

\* the answers the concurrent specification draws from
RaceRepoKinds == {"none"}

RaceLiveKinds == {"error", "price"}

\* ------------------------------------------------------------------------
\* Init: a completed upload whose batch has not been modeled yet
\* ------------------------------------------------------------------------
InitWith(batches) ==
  /\ unifiedBilling \in batches
  /\ upload = [status |-> "completed", errorMessage |-> NoMessage, storagePath |-> NoMessage]
  /\ lineItems = Len(unifiedBilling)
  /\ modeling = << >>
  /\ run = [r \in Runs |-> IdleRun]
  /\ calls = 0
  /\ returned = << >>
  /\ pricingCalls = 0
  /\ retrieved = NoRetrieval
  /\ del = [pc |-> "idle", pending |-> {}]
  /\ overlap = FALSE
  /\ ingest = IdleIngest
  /\ calc = NoCall
  /\ cache = [service \in PricingServices |-> [key \in CacheKeys(service) |-> NoEntry]]
  /\ skuCache = NoEntry
  /\ lookup = [l \in Lookups |-> IdleLookup]

Init == InitWith(Batches)

\* ------------------------------------------------------------------------
\* OciCostModelingService.model(uploadId), one action per await
\* ------------------------------------------------------------------------
Active(r) == run[r].pc \in {"loaded", "deleted", "priced"}

\* variant: the previous rows are deleted before the batch is looked at
ModelLoadDeletesFirst(r) ==
  /\ run[r].pc \in {"idle", "done"}
  /\ calls < MaxCalls
  /\ calls' = calls + 1
  /\ modeling' = << >>
  /\ IF Len(unifiedBilling) = 0
       THEN /\ run' = [run EXCEPT ![r] = [IdleRun EXCEPT !.pc = "done"]]
            /\ returned' = Append(returned, [summary |-> emptyResult.summary, prices |-> << >>])
            /\ UNCHANGED overlap
       ELSE /\ run' = [run EXCEPT ![r] = [IdleRun EXCEPT !.pc = "loaded",
                                                          !.records = unifiedBilling]]
            /\ overlap' = (overlap \/ del.pc = "deleting"
                                   \/ \E o \in Runs \ {r} : Active(o))
            /\ UNCHANGED returned
  /\ UNCHANGED <<upload, unifiedBilling, lineItems, pricingCalls, retrieved, del, ingest, calc, cache, skuCache, lookup>>

\* find({uploadId}); an empty batch returns emptyResult at once
ModelLoad(r) ==
  /\ run[r].pc \in {"idle", "done"}
  /\ calls < MaxCalls
  /\ calls' = calls + 1
  /\ IF Len(unifiedBilling) = 0
       THEN /\ run' = [run EXCEPT ![r] = [IdleRun EXCEPT !.pc = "done"]]
            /\ returned' = Append(returned, [summary |-> emptyResult.summary, prices |-> << >>])
            /\ UNCHANGED overlap
       ELSE /\ run' = [run EXCEPT ![r] = [IdleRun EXCEPT !.pc = "loaded",
                                                          !.records = unifiedBilling]]
            /\ overlap' = (overlap \/ del.pc = "deleting"
                                   \/ \E o \in Runs \ {r} : Active(o))
            /\ UNCHANGED returned
  /\ UNCHANGED <<upload, unifiedBilling, lineItems, modeling, pricingCalls,
                 retrieved, del, ingest, calc, cache, skuCache, lookup>>

\* variant: the re-run keeps the rows of the previous run
ModelDeletePriorKeepsRows(r) ==
  /\ run[r].pc = "loaded"
  /\ modeling' = modeling
  /\ run' = [run EXCEPT ![r].pc = "deleted"]
  /\ UNCHANGED <<upload, unifiedBilling, lineItems, calls, returned, pricingCalls,
                 retrieved, del, overlap, ingest, calc, cache, skuCache, lookup>>

\* modelingModel.deleteMany({uploadId})
ModelDeletePrior(r) ==
  /\ run[r].pc = "loaded"
  /\ modeling' = << >>
  /\ run' = [run EXCEPT ![r].pc = "deleted"]
  /\ UNCHANGED <<upload, unifiedBilling, lineItems, calls, returned, pricingCalls,
                 retrieved, del, overlap, ingest, calc, cache, skuCache, lookup>>

\* fetchOciPricesByPartNumbers([...partNumbersNeeded]); the answers of the
\* repository and of the live API are chosen by the environment
ModelFetchPrices(r, RepoKinds, LiveKinds) ==
  /\ run[r].pc = "deleted"
  /\ \E kinds \in [partNumbersNeeded(run[r].records) -> [repo : RepoKinds, live : LiveKinds]] :
       \* lookups records what was asked and answered; the live API is not
       \* called after a cache hit
       LET lookups == [pn \in DOMAIN kinds |->
                         LET repo == RepoAnswer(pn, kinds[pn].repo)
                             live == LiveAnswer(pn, kinds[pn].live)
                         IN [repo |-> repo,
                             live |-> IF lookupOne(pn, repo, live).liveCalled
                                        THEN live
                                        ELSE Answer("notcalled", 0)]]
       IN
          /\ run' = [run EXCEPT ![r].pc = "priced",
                                ![r].lookups = lookups,
                                ![r].ociPrices = fetchOciPricesByPartNumbers(lookups)]
          /\ pricingCalls' = pricingCalls + lookupCalls(lookups)
  /\ UNCHANGED <<upload, unifiedBilling, lineItems, modeling, calls, returned,
                 retrieved, del, overlap, ingest, calc, cache, skuCache, lookup>>

\* the for loop, insertMany(insertDocs) and buildResult
ModelInsert(r) ==
  /\ run[r].pc = "priced"
  /\ LET rows   == modelRows(run[r].records, run[r].ociPrices)
         result == buildResult(providerDetectedOf(run[r].records), rows)
     IN /\ modeling' = modeling \o [i \in 1..Len(rows) |-> insertDoc(rows[i])]
        /\ run' = [run EXCEPT ![r].pc = "done", ![r].result = result]
        /\ returned' = Append(returned, [summary |-> result.summary,
                                         prices  |-> AnsweredPrices(run[r].lookups)])
  /\ UNCHANGED <<upload, unifiedBilling, lineItems, calls, pricingCalls,
                 retrieved, del, overlap, ingest, calc, cache, skuCache, lookup>>

\* OciCostModelingService.getByUploadId(uploadId)
GetByUploadId ==
  /\ retrieved' = getByUploadId(modeling)
  /\ UNCHANGED <<upload, unifiedBilling, lineItems, modeling, run, calls, returned,
                 pricingCalls, del, overlap, ingest, calc, cache, skuCache, lookup>>

\* ------------------------------------------------------------------------
\* DocumentIngestionService.deleteUpload(uploadId)
\* ------------------------------------------------------------------------
Collections == {"uploads", "lineItems", "unifiedBilling", "modeling"}

\* findById; NotFoundException when the upload does not exist
DeleteFind ==
  /\ del.pc \in {"idle", "done", "notfound"}
  /\ IF upload.status = "none"
       THEN del' = [del EXCEPT !.pc = "notfound"]
       ELSE del' = [pc |-> "deleting", pending |-> Collections]
  /\ overlap' = (overlap \/ (upload.status # "none" /\ \E r \in Runs : Active(r)))
  /\ UNCHANGED <<upload, unifiedBilling, lineItems, modeling, run, calls, returned,
                 pricingCalls, retrieved, ingest, calc, cache, skuCache, lookup>>

\* one of the four deletes of the Promise.all, in any order
DeleteCollection(c) ==
  /\ del.pc = "deleting"
  /\ c \in del.pending
  /\ del' = [del EXCEPT !.pending = @ \ {c}]
  /\ upload' = IF c = "uploads" THEN NoUpload ELSE upload
  /\ lineItems' = IF c = "lineItems" THEN 0 ELSE lineItems
  /\ unifiedBilling' = IF c = "unifiedBilling" THEN << >> ELSE unifiedBilling
  /\ modeling' = IF c = "modeling" THEN << >> ELSE modeling
  /\ UNCHANGED <<run, calls, returned, pricingCalls, retrieved, overlap, ingest, calc, cache, skuCache, lookup>>

\* Promise.all resolved: { deleted: true, uploadId }
DeleteReturn ==
  /\ del.pc = "deleting"
  /\ del.pending = {}
  /\ del' = [del EXCEPT !.pc = "done"]
  /\ UNCHANGED <<upload, unifiedBilling, lineItems, modeling, run, calls, returned,
                 pricingCalls, retrieved, overlap, ingest, calc, cache, skuCache, lookup>>

\* ------------------------------------------------------------------------
\* DocumentIngestionService.processFile(file, dto, extractor), one action per
\* await
\* ------------------------------------------------------------------------
\* the line items an extractor returns, taken as the items normalizeAll maps
\* them to (one per raw item)
ParsedBatches == {<< >>, <<RecCompute>>, <<RecCompute, RecOther>>}

Extractions ==
  {Extracted(b) : b \in ParsedBatches} \cup {ExtractionThrew(e) : e \in ExtractionErrors}

\* persistFile: the stored file name (upload id, lower-cased extension), or
\* null when no storage path is configured or the write fails
persistFile(originalName, written) ==
  LET lower == ToLowerCase(originalName)
      ext   == IF EndsWith(lower, PdfExtension) THEN PdfExtension
               ELSE IF EndsWith(lower, CsvExtension) THEN CsvExtension
               ELSE IF EndsWith(lower, XlsxExtension) THEN XlsxExtension
               ELSE << >>
  IN  IF written THEN UploadId \o ext ELSE NoMessage

\* guards, then uploadModel.create({..., status: 'processing'})
IngestStart ==
  /\ ingest.pc = "idle"
  /\ \E file \in Files \cup {NoFile}, extractor \in PdfExtractors,
        geminiAvailable \in BOOLEAN, textractAvailable \in BOOLEAN :
       LET called == [ingest EXCEPT !.file = file, !.extractor = extractor,
                                    !.geminiAvailable = geminiAvailable,
                                    !.textractAvailable = textractAvailable]
       IN  IF file = NoFile
             THEN /\ ingest' = [called EXCEPT !.pc = "rejected",
                                  !.rejection = Err("BadRequest", MsgNoFileProvided)]
                  /\ UNCHANGED upload
           ELSE IF file.size > MAX_FILE_SIZE
             THEN /\ ingest' = [called EXCEPT !.pc = "rejected",
                                  !.rejection = Err("BadRequest", MsgFileTooLarge)]
                  /\ UNCHANGED upload
           ELSE /\ ingest' = [called EXCEPT !.pc = "created"]
                /\ upload' = [status |-> "processing", errorMessage |-> NoMessage,
                              storagePath |-> NoMessage]
  /\ UNCHANGED <<unifiedBilling, lineItems, modeling, run, calls, returned,
                 pricingCalls, retrieved, del, overlap, calc, cache, skuCache, lookup>>

\* persistFile, then updateOne({ storagePath }) when a file was written
IngestPersistFile ==
  /\ ingest.pc = "created"
  /\ \E written \in BOOLEAN :
       LET storagePath == persistFile(ingest.file.originalname, written)
       IN  upload' = IF storagePath # NoMessage
                       THEN [upload EXCEPT !.storagePath = storagePath]
                       ELSE upload
  /\ ingest' = [ingest EXCEPT !.pc = "stored"]
  /\ UNCHANGED <<unifiedBilling, lineItems, modeling, run, calls, returned,
                 pricingCalls, retrieved, del, overlap, calc, cache, skuCache, lookup>>

\* parserFactory.parse, then normalizationService.normalizeAll; a throw of
\* either enters the catch block
IngestParse ==
  /\ ingest.pc = "stored"
  /\ \E extraction \in Extractions, normalizeError \in {NoError} \cup NormalizationErrors :
       LET parsed == parseFromBuffer(ingest.file.buffer, ingest.file.originalname,
                                     ingest.file.mimetype, ingest.extractor,
                                     ingest.geminiAvailable, ingest.textractAvailable,
                                     extraction)
           routed == [ingest EXCEPT !.fileType = parsed.fileType,
                                    !.backend = parsed.backend]
       IN  IF parsed.error # NoError
             THEN ingest' = [routed EXCEPT !.pc = "caught", !.err = parsed.error,
                               !.failedAt = IF parsed.fileType = "unsupported" THEN "detection"
                                            ELSE IF parsed.backend = "none" THEN "configuration"
                                            ELSE "extraction"]
           ELSE IF normalizeError # NoError /\ Len(parsed.lineItems) > 0
             THEN ingest' = [routed EXCEPT !.pc = "caught", !.err = normalizeError,
                               !.failedAt = "normalization"]
           ELSE ingest' = [routed EXCEPT !.pc = "parsed", !.items = parsed.lineItems]
  /\ UNCHANGED <<upload, unifiedBilling, lineItems, modeling, run, calls, returned,
                 pricingCalls, retrieved, del, overlap, calc, cache, skuCache, lookup>>

\* unifiedBillingModel.insertMany; when it rejects, the documents before the
\* failing one stay inserted
IngestInsertBilling ==
  /\ ingest.pc = "parsed"
  /\ Len(ingest.items) > 0
  /\ \/ /\ unifiedBilling' = ingest.items
        /\ ingest' = [ingest EXCEPT !.pc = "billed"]
     \/ \E e \in PersistenceErrors, k \in 0..Len(ingest.items) :
          /\ unifiedBilling' = SubSeq(ingest.items, 1, k)
          /\ ingest' = [ingest EXCEPT !.pc = "caught", !.err = e,
                          !.failedAt = "persistence"]
  /\ UNCHANGED <<upload, lineItems, modeling, run, calls, returned,
                 pricingCalls, retrieved, del, overlap, calc, cache, skuCache, lookup>>

\* lineItemModel.insertMany
IngestInsertLineItems ==
  /\ ingest.pc = "billed"
  /\ \/ /\ lineItems' = Len(ingest.items)
        /\ ingest' = [ingest EXCEPT !.pc = "inserted"]
     \/ \E e \in PersistenceErrors, k \in 0..Len(ingest.items) :
          /\ lineItems' = k
          /\ ingest' = [ingest EXCEPT !.pc = "caught", !.err = e,
                          !.failedAt = "persistence"]
  /\ UNCHANGED <<upload, unifiedBilling, modeling, run, calls, returned,
                 pricingCalls, retrieved, del, overlap, calc, cache, skuCache, lookup>>

\* updateOne({ status: 'completed', errorMessage: null }) and return; the
\* two inserts are skipped when there are no items
IngestComplete ==
  /\ \/ ingest.pc = "inserted"
     \/ ingest.pc = "parsed" /\ Len(ingest.items) = 0
  /\ upload' = [upload EXCEPT !.status = "completed", !.errorMessage = NoMessage]
  /\ ingest' = [ingest EXCEPT !.pc = "resolved"]
  /\ UNCHANGED <<unifiedBilling, lineItems, modeling, run, calls, returned,
                 pricingCalls, retrieved, del, overlap, calc, cache, skuCache, lookup>>

\* catch: updateOne({ status: 'failed', errorMessage }) and rethrow
IngestCatch ==
  /\ ingest.pc = "caught"
  /\ LET message == sanitizeErrorMessage(ingest.err)
     IN  /\ upload' = [upload EXCEPT !.status = "failed", !.errorMessage = message]
         /\ ingest' = [ingest EXCEPT !.pc = "rejected",
                         !.rejection = IF ingest.err.kind = "BadRequest" THEN ingest.err
                                       ELSE Err("BadRequest", message)]
  /\ UNCHANGED <<unifiedBilling, lineItems, modeling, run, calls, returned,
                 pricingCalls, retrieved, del, overlap, calc, cache, skuCache, lookup>>

\* ------------------------------------------------------------------------
\* Calls of side-effect-free methods, one call per behaviour
\* ------------------------------------------------------------------------
Call(method, args, result) == [method |-> method, args |-> args, result |-> result]

CallNormalizeTextToLineItems ==
  /\ calc.method = "none"
  /\ \E text \in Texts :
       calc' = Call("normalizeTextToLineItems", text, normalizeTextToLineItems(text))
  /\ UNCHANGED <<upload, unifiedBilling, lineItems, modeling, run, calls, returned,
                 pricingCalls, retrieved, del, overlap, ingest, cache, skuCache, lookup>>

CallParseResponse ==
  /\ calc.method = "none"
  /\ \E response \in TextractResponses :
       calc' = Call("parseResponse", response, parseResponse(response))
  /\ UNCHANGED <<upload, unifiedBilling, lineItems, modeling, run, calls, returned,
                 pricingCalls, retrieved, del, overlap, ingest, cache, skuCache, lookup>>

CallMapToLineItems ==
  /\ calc.method = "none"
  /\ \E invoice \in Documents :
       calc' = Call("mapToLineItems", invoice, mapToLineItems(invoice))
  /\ UNCHANGED <<upload, unifiedBilling, lineItems, modeling, run, calls, returned,
                 pricingCalls, retrieved, del, overlap, ingest, cache, skuCache, lookup>>

CallExtractLineItems ==
  /\ calc.method = "none"
  /\ \E response \in Documents :
       calc' = Call("extractLineItems", response, extractLineItems(response))
  /\ UNCHANGED <<upload, unifiedBilling, lineItems, modeling, run, calls, returned,
                 pricingCalls, retrieved, del, overlap, ingest, cache, skuCache, lookup>>

CallDetectFileType ==
  /\ calc.method = "none"
  /\ \E in \in DetectInputs :
       calc' = Call("detectFileType", in,
                    detectFileType(in.buffer, in.fileName, in.mimeType))
  /\ UNCHANGED <<upload, unifiedBilling, lineItems, modeling, run, calls, returned,
                 pricingCalls, retrieved, del, overlap, ingest, cache, skuCache, lookup>>

CallNormalize ==
  /\ calc.method = "none"
  /\ \E in \in NormalizeInputs :
       calc' = Call("normalize", in, normalize(in.item, in.provider))
  /\ UNCHANGED <<upload, unifiedBilling, lineItems, modeling, run, calls, returned,
                 pricingCalls, retrieved, del, overlap, ingest, cache, skuCache, lookup>>

CallBuild ==
  /\ calc.method = "none"
  /\ \E items \in SummaryItemLists, totalTax \in SummaryTaxes :
       calc' = Call("build", [lineItems |-> items, totalTax |-> totalTax],
                    build(items, totalTax))
  /\ UNCHANGED <<upload, unifiedBilling, lineItems, modeling, run, calls, returned,
                 pricingCalls, retrieved, del, overlap, ingest, cache, skuCache, lookup>>

CallResolveForRecord ==
  /\ calc.method = "none"
  /\ \E record \in BillingRecords :
       calc' = Call("resolveForRecord", record, resolveForRecord(record))
  /\ UNCHANGED <<upload, unifiedBilling, lineItems, modeling, run, calls, returned,
                 pricingCalls, retrieved, del, overlap, ingest, cache, skuCache, lookup>>

\* ------------------------------------------------------------------------
\* Pricing lookups, one action per await
\* ------------------------------------------------------------------------
\* if (this.cache.has(cacheKey)) return this.cache.get(cacheKey); else the
\* request is sent
beginLookup(service, type) ==
  IF cache[service][cacheKey(service, type)].has
    THEN [pc |-> "done", service |-> service, type |-> type,
          result |-> cache[service][cacheKey(service, type)].value]
    ELSE [pc |-> "waiting", service |-> service, type |-> type, result |-> Null]

\* cache.set(cacheKey, result); return result
endLookup(l, result) ==
  /\ cache' = [cache EXCEPT ![lookup[l].service][cacheKey(lookup[l].service, lookup[l].type)] =
                 Entry(result)]
  /\ lookup' = [lookup EXCEPT ![l].pc = "done", ![l].result = result]

\* AwsPricingService.getEc2OnDemandPrice up to client.send
GetEc2OnDemandPriceBegin(l) ==
  /\ lookup[l].pc = "idle"
  /\ \E type \in LookupTypes["aws"] :
       lookup' = [lookup EXCEPT ![l] = beginLookup("aws", type)]
  /\ UNCHANGED <<upload, unifiedBilling, lineItems, modeling, run, calls, returned,
                 pricingCalls, retrieved, del, overlap, ingest, calc, cache, skuCache>>

\* AwsPricingService.getEc2OnDemandPrice after client.send
GetEc2OnDemandPriceEnd(l) ==
  /\ lookup[l].pc = "waiting" /\ lookup[l].service = "aws"
  /\ \E answer \in AwsAnswers : endLookup(l, awsResult(answer, lookup[l].type))
  /\ UNCHANGED <<upload, unifiedBilling, lineItems, modeling, run, calls, returned,
                 pricingCalls, retrieved, del, overlap, ingest, calc, skuCache>>

\* AzurePricingService.getVmPrice up to query()
GetVmPriceBegin(l) ==
  /\ lookup[l].pc = "idle"
  /\ \E type \in LookupTypes["azure"] :
       lookup' = [lookup EXCEPT ![l] = beginLookup("azure", type)]
  /\ UNCHANGED <<upload, unifiedBilling, lineItems, modeling, run, calls, returned,
                 pricingCalls, retrieved, del, overlap, ingest, calc, cache, skuCache>>

\* AzurePricingService.getVmPrice after query()
GetVmPriceEnd(l) ==
  /\ lookup[l].pc = "waiting" /\ lookup[l].service = "azure"
  /\ \E answer \in AzureAnswers : endLookup(l, azureResult(answer, lookup[l].type))
  /\ UNCHANGED <<upload, unifiedBilling, lineItems, modeling, run, calls, returned,
                 pricingCalls, retrieved, del, overlap, ingest, calc, skuCache>>

\* GcpPricingService.getComputeOnDemandPrice up to the await inside
\* getSkusForService; the API key is configured.  getSkusForService answers
\* from skuCache when it holds the service's SKU list (pc "skus") and sends
\* the request otherwise (pc "waiting")
GetComputeOnDemandPriceBegin(l) ==
  /\ lookup[l].pc = "idle"
  /\ \E type \in LookupTypes["gcp"] :
       lookup' = [lookup EXCEPT ![l] =
                    IF ~cache["gcp"][cacheKey("gcp", type)].has /\ skuCache.has
                      THEN [pc |-> "skus", service |-> "gcp", type |-> type,
                            result |-> Null]
                      ELSE beginLookup("gcp", type)]
  /\ UNCHANGED <<upload, unifiedBilling, lineItems, modeling, run, calls, returned,
                 pricingCalls, retrieved, del, overlap, ingest, calc, cache, skuCache>>

\* GcpPricingService.getComputeOnDemandPrice after getSkusForService, which
\* stores the list the API returned
GetComputeOnDemandPriceEnd(l) ==
  /\ lookup[l].service = "gcp"
  /\ \/ /\ lookup[l].pc = "skus"
        /\ endLookup(l, gcpResult(skuCache.value, lookup[l].type))
        /\ UNCHANGED skuCache
     \/ /\ lookup[l].pc = "waiting"
        /\ \E answer \in GcpAnswers :
             /\ skuCache' = IF answer = "error" THEN skuCache ELSE Entry(answer = "skus")
             /\ endLookup(l, gcpResult(answer = "skus", lookup[l].type))
  /\ UNCHANGED <<upload, unifiedBilling, lineItems, modeling, run, calls, returned,
                 pricingCalls, retrieved, del, overlap, ingest, calc>>

\* the body of the for loop of model() for one record
CallModelRow ==
  /\ calc.method = "none"
  /\ \E record \in EstimateRecords : \E ociPrices \in EstimatePrices(record) :
       calc' = Call("modelRow", [record |-> record, ociPrices |-> ociPrices],
                    modelRow(record, ociPrices, providerDetectedOf(<<record>>)))
  /\ UNCHANGED <<upload, unifiedBilling, lineItems, modeling, run, calls, returned,
                 pricingCalls, retrieved, del, overlap, ingest, cache, skuCache, lookup>>

\* the result of model() for a batch at the fallback prices, or, once its
\* rows are persisted, the result getByUploadId rebuilds
CallBuildResult ==
  /\ calc.method = "none"
  /\ \E records \in SummaryBatches : \E persisted \in BOOLEAN :
       \E rows \in {modelRows(records, [pn \in partNumbersNeeded(records) |->
                                          fallbackByPartNumber(pn)])} :
         calc' = Call("buildResult", [records |-> records, persisted |-> persisted],
                      IF persisted
                        THEN getByUploadId([i \in 1..Len(rows) |-> insertDoc(rows[i])]).result
                        ELSE buildResult(providerDetectedOf(records), rows))
  /\ UNCHANGED <<upload, unifiedBilling, lineItems, modeling, run, calls, returned,
                 pricingCalls, retrieved, del, overlap, ingest, cache, skuCache, lookup>>

\* CsvExtractorService.normalizeRow: the two amounts of the item
CallNormalizeRow ==
  /\ calc.method = "none"
  /\ \E row \in CsvRows :
       calc' = Call("normalizeRow", row,
                    [unitPrice |-> getUnitPrice(row), costBeforeTax |-> getCost(row)])
  /\ UNCHANGED <<upload, unifiedBilling, lineItems, modeling, run, calls, returned,
                 pricingCalls, retrieved, del, overlap, ingest, cache, skuCache, lookup>>

\* the provider an extractor reports for a file when no hint is given
CallDetectProvider ==
  /\ calc.method = "none"
  /\ \E extractor \in {"csv", "pdf", "textract"} : \E fileName \in ProviderFileNames :
       \E columns \in ProviderColumns : \E text \in ProviderTexts :
         calc' = Call("detectProvider",
                      [extractor |-> extractor, fileName |-> fileName,
                       columns |-> IF extractor = "csv" THEN columns ELSE << >>,
                       text |-> IF extractor = "csv" THEN << >> ELSE text],
                      CASE extractor = "csv" -> extractCsv(fileName, columns)
                        [] extractor = "pdf" -> extractPdf(fileName, text)
                        [] extractor = "textract" -> inferProvider(text, fileName))
  /\ UNCHANGED <<upload, unifiedBilling, lineItems, modeling, run, calls, returned,
                 pricingCalls, retrieved, del, overlap, ingest, cache, skuCache, lookup>>

\* parseNum of the structured-document extractors
CallParseNum ==
  /\ calc.method = "none"
  /\ \E amount \in AmountTexts :
       calc' = Call("parseNum", amount, parseNum(amount.text))
  /\ UNCHANGED <<upload, unifiedBilling, lineItems, modeling, run, calls, returned,
                 pricingCalls, retrieved, del, overlap, ingest, cache, skuCache, lookup>>

\* ------------------------------------------------------------------------
\* Specifications
\* ------------------------------------------------------------------------
\* sequential model() calls with every pricing answer, and retrieval
Next ==
  \/ ModelLoad(1)
  \/ ModelDeletePrior(1)
  \/ ModelFetchPrices(1, AnswerKinds, AnswerKinds)
  \/ ModelInsert(1)
  \/ GetByUploadId

Spec == Init /\ [][Next]_vars

\* concurrent model() calls and deleteUpload() on the same upload
InitRace == InitWith(RaceBatches)

NextRace ==
  \/ \E r \in Runs : ModelLoad(r)
  \/ \E r \in Runs : ModelDeletePrior(r)
  \/ \E r \in Runs : ModelFetchPrices(r, RaceRepoKinds, RaceLiveKinds)
  \/ \E r \in Runs : ModelInsert(r)
  \/ DeleteFind
  \/ \E c \in Collections : DeleteCollection(c)
  \/ DeleteReturn

SpecRace == InitRace /\ [][NextRace]_vars

\* one processFile() call on every sample file, extractor and configuration
InitIngest ==
  /\ upload = NoUpload
  /\ unifiedBilling = << >>
  /\ lineItems = 0
  /\ modeling = << >>
  /\ run = [r \in Runs |-> IdleRun]
  /\ calls = 0
  /\ returned = << >>
  /\ pricingCalls = 0
  /\ retrieved = NoRetrieval
  /\ del = [pc |-> "idle", pending |-> {}]
  /\ overlap = FALSE
  /\ ingest = IdleIngest
  /\ calc = NoCall
  /\ cache = [service \in PricingServices |-> [key \in CacheKeys(service) |-> NoEntry]]
  /\ skuCache = NoEntry
  /\ lookup = [l \in Lookups |-> IdleLookup]

NextIngest ==
  \/ IngestStart
  \/ IngestPersistFile
  \/ IngestParse
  \/ IngestInsertBilling
  \/ IngestInsertLineItems
  \/ IngestComplete
  \/ IngestCatch

SpecIngest == InitIngest /\ [][NextIngest]_vars

\* every awaited promise of processFile() settles
SpecIngestLive == InitIngest /\ [][NextIngest]_vars /\ WF_vars(NextIngest)


\* one call of a side-effect-free method on every sample input
NextCalls ==
  \/ CallNormalizeTextToLineItems
  \/ CallParseResponse
  \/ CallMapToLineItems
  \/ CallExtractLineItems
  \/ CallDetectFileType
  \/ CallNormalize
  \/ CallBuild
  \/ CallResolveForRecord
  \/ CallModelRow
  \/ CallBuildResult
  \/ CallNormalizeRow
  \/ CallDetectProvider
  \/ CallParseNum

SpecCalls == InitIngest /\ [][NextCalls]_vars

\* concurrent price lookups against the three pricing services
NextLookups ==
  \/ \E l \in Lookups : GetEc2OnDemandPriceBegin(l)
  \/ \E l \in Lookups : GetEc2OnDemandPriceEnd(l)
  \/ \E l \in Lookups : GetVmPriceBegin(l)
  \/ \E l \in Lookups : GetVmPriceEnd(l)
  \/ \E l \in Lookups : GetComputeOnDemandPriceBegin(l)
  \/ \E l \in Lookups : GetComputeOnDemandPriceEnd(l)

SpecLookups == InitIngest /\ [][NextLookups]_vars

\* ------------------------------------------------------------------------
\* Properties of the cost modeler
\* ------------------------------------------------------------------------
Quiet == \A r \in Runs : ~Active(r)

\* C1: after completed model() runs that overlapped neither each other nor a
\* deleteUpload(), on an unchanged batch of N >= 1 records, exactly N
\* modeling rows are persisted, one per billing record, in order.
C1_RowsOnePerRecord ==
  (/\ ~overlap /\ del.pc = "idle" /\ Quiet
   /\ \E r \in Runs : run[r].pc = "done"
   /\ Len(unifiedBilling) >= 1)
  => /\ Len(modeling) = Len(unifiedBilling)
     /\ \A i \in 1..Len(modeling) :
          /\ modeling[i].serviceCategory = unifiedBilling[i].serviceCategory
          /\ modeling[i].sourceCost = sourceCostOf(unifiedBilling[i])

\* two runs, one after the other, have completed
C1_Witness ==
  /\ ~overlap /\ del.pc = "idle" /\ Quiet
  /\ Len(returned) = 2
  /\ Len(unifiedBilling) >= 1
  /\ Len(modeling) = Len(unifiedBilling)

\* the row of a completed run that was priced with part number pn
RowsPricedWith(r, pn) ==
  {i \in 1..Len(run[r].result.rows) : run[r].result.rows[i].ociSkuPartNumber = pn}

Failed(answer) == answer.status \in {"error", "none"}

\* C2: a failing cache lookup or live lookup of one SKU (an error or no
\* result) neither fails model() nor touches another SKU's price: the SKU
\* degrades to the next tier and the run completes with one row per record.
C2_LookupFailureIsolated ==
  \A r \in Runs :
    /\ run[r].pc \in {"idle", "loaded", "deleted", "priced", "done"}
    /\ run[r].pc = "done" /\ Len(run[r].records) > 0 =>
         /\ Len(run[r].result.rows) = Len(run[r].records)
         /\ \A pn \in DOMAIN run[r].lookups : \A i \in RowsPricedWith(r, pn) :
              LET lk   == run[r].lookups[pn]
                  used == run[r].result.rows[i].ociUnitPrice
              IN /\ Failed(lk.repo) /\ Positive(lk.live) => used = lk.live.unitPrice
                 /\ Failed(lk.live) => used = CatalogFallback(pn)
                 /\ Positive(lk.repo) => used = lk.repo.unitPrice

\* a completed run in which the live lookup of one SKU threw while the
\* other SKU kept its cached price
C2_Witness ==
  \E r \in Runs :
    /\ run[r].pc = "done"
    /\ Len(run[r].result.rows) = Len(run[r].records)
    /\ \E pn, qn \in DOMAIN run[r].lookups :
         /\ pn # qn
         /\ run[r].lookups[pn].live.status = "error"
         /\ run[r].lookups[pn].repo.status = "error"
         /\ Positive(run[r].lookups[qn].repo)
         /\ RowsPricedWith(r, qn) # {}

\* C3 as stated: two model() calls in sequence on the unchanged batch
\* return identical aggregate totals.
C3_SameTotalsAlways ==
  \A i, j \in 1..Len(returned) : returned[i].summary = returned[j].summary

\* C3 amended: the two calls return identical aggregate totals whenever the
\* price lookups of both calls amount to the same unit price for every SKU.
C3_SameTotalsForSamePrices ==
  \A i, j \in 1..Len(returned) :
    returned[i].prices = returned[j].prices => returned[i].summary = returned[j].summary

\* two completed calls with equal prices and a non-zero estimate
C3_Witness ==
  /\ Len(returned) = 2
  /\ returned[1].prices = returned[2].prices
  /\ returned[1].summary = returned[2].summary
  /\ returned[2].summary.totalOciEstimatedCost > 0
  /\ Cardinality(DOMAIN returned[2].summary.byCategory) >= 2

NoFlags(rows) ==
  \A i \in 1..Len(rows) : ~rows[i].isSpotConverted /\ ~rows[i].hasWindowsLicense

\* C4: getByUploadId() after a completed model() on a non-empty batch returns
\* as many rows and the same summary as model() returned, makes no pricing
\* lookup, and reports both flags false on every row.
C4_RetrievalMatchesModel ==
  [][(GetByUploadId /\ run[1].pc = "done" /\ Len(run[1].records) > 0)
       => /\ retrieved'.found
          /\ Len(retrieved'.result.rows) = Len(run[1].result.rows)
          /\ retrieved'.result.summary = run[1].result.summary
          /\ NoFlags(retrieved'.result.rows)
          /\ pricingCalls' = pricingCalls]_vars

\* a retrieval that agrees with a model() result that had flagged rows
C4_Witness ==
  /\ run[1].pc = "done"
  /\ retrieved.found
  /\ retrieved.result.summary = run[1].result.summary
  /\ Len(retrieved.result.rows) = Len(run[1].result.rows)
  /\ \E i \in 1..Len(run[1].result.rows) :
       run[1].result.rows[i].hasWindowsLicense /\ run[1].result.rows[i].isSpotConverted
  /\ NoFlags(retrieved.result.rows)

\* C5: once deleteUpload() has completed, no record of the upload exists in
\* any of the four collections, whatever model() calls it interleaved with.
C5_NothingLeftAfterDelete ==
  del.pc = "done" =>
    /\ upload.status = "none"
    /\ lineItems = 0
    /\ Len(unifiedBilling) = 0
    /\ Len(modeling) = 0

\* ------------------------------------------------------------------------
\* Properties of the ingestion pipeline
\* ------------------------------------------------------------------------
IngestInFlight ==
  ingest.pc \in {"created", "stored", "parsed", "billed", "inserted", "caught"}

IngestEnded == ingest.pc \in {"resolved", "rejected"}

\* the message of the thrown value, 'Processing failed' for a non-Error
RawMessage(err) ==
  IF err.kind = "NonError" THEN MsgProcessingFailed ELSE err.message

Leaks(message) == \E w \in SensitiveWords : Includes(ToLowerCase(message), w)

C6_StatusFollowsOutcome ==
  /\ IngestInFlight => upload.status = "processing" /\ upload.errorMessage = NoMessage
  /\ upload.status = "completed" =>
       /\ ingest.pc = "resolved"
       /\ ingest.failedAt = "none"
       /\ unifiedBilling = ingest.items
       /\ lineItems = Len(ingest.items)
       /\ upload.errorMessage = NoMessage
  /\ ingest.pc = "resolved" => upload.status = "completed"
  /\ upload.status = "failed" => ingest.pc = "rejected" /\ ingest.failedAt # "none"
  /\ ingest.pc = "rejected" /\ ingest.failedAt # "none" =>
       /\ upload.status = "failed"
       /\ ingest.rejection.kind = "BadRequest"
       /\ upload.errorMessage = MsgDocumentCouldNotBeRead \/ ~Leaks(upload.errorMessage)
       /\ ~Leaks(RawMessage(ingest.err)) => upload.errorMessage = RawMessage(ingest.err)
  /\ ingest.failedAt # "none" => ingest.pc \in {"caught", "rejected"}

UnsupportedInput == ingest.file = NoFile \/ ingest.file \in UnrecognisedFiles

ZeroSummary ==
  [totalSourceCost |-> 0, totalOciEstimatedCost |-> 0, totalSavings |-> 0,
   totalSavingsPct |-> 0, byCategory |-> << >>]

\* C8: model() on a batch without billing records returns at once a result
\* with no rows and all totals 0; it deletes and inserts no modeling row
\* and makes no pricing lookup.
C8_EmptyBatchReturnsZero ==
  [][\A r \in Runs :
       (ModelLoad(r) /\ Len(unifiedBilling) = 0)
         => /\ run'[r].pc = "done"
            /\ run'[r].result.rows = << >>
            /\ run'[r].result.summary = ZeroSummary
            /\ returned' = Append(returned, [summary |-> ZeroSummary, prices |-> << >>])
            /\ modeling' = modeling
            /\ pricingCalls' = pricingCalls]_vars

\* a call on the emptied batch returned zero while older modeling rows exist
C8_Witness ==
  \E r \in Runs :
    /\ run[r].pc = "done"
    /\ run[r].records = << >>
    /\ run[r].result.summary = ZeroSummary
    /\ Len(unifiedBilling) = 0
    /\ Len(modeling) > 0

\* C9: the unit price of every SKU a batch needs is the cached price when
\* one exists and is positive, else the live price when it exists and is
\* positive, else the SKU's catalog constant; the live API is asked only
\* when the cache gave no positive price.
C9_PricePriorityOrder ==
  \A r \in Runs : run[r].pc \in {"priced", "done"} /\ Len(run[r].records) > 0 =>
    /\ DOMAIN run[r].lookups = partNumbersNeeded(run[r].records)
    /\ \A pn \in DOMAIN run[r].lookups :
         LET lk   == run[r].lookups[pn]
             used == PriceOr(run[r].ociPrices, pn, CatalogFallback(pn))
         IN /\ used = (IF Positive(lk.repo) THEN lk.repo.unitPrice
                       ELSE IF Positive(lk.live) THEN lk.live.unitPrice
                       ELSE CatalogFallback(pn))
            /\ (lk.live.status = "notcalled") = Positive(lk.repo)
            /\ run[r].pc = "done" =>
                 \A i \in RowsPricedWith(r, pn) : run[r].result.rows[i].ociUnitPrice = used

\* a completed run that used the three tiers: cache for one SKU, and for
\* the other the catalog constant after a cached price of 0 and a live price of 0
C9_Witness ==
  \E r \in Runs :
    /\ run[r].pc = "done"
    /\ \E pn, qn \in DOMAIN run[r].lookups :
         /\ Positive(run[r].lookups[pn].repo)
         /\ RowsPricedWith(r, pn) # {}
         /\ run[r].lookups[qn].repo = Answer("price", 0)
         /\ run[r].lookups[qn].live = Answer("price", 0)
         /\ run[r].ociPrices[qn] = CatalogFallback(qn)

\* C10: for a PDF, an explicitly requested backend that is not configured
\* fails with its configuration error and no backend is handed the file; in
\* automatic mode the file goes to Gemini if configured, else to Textract if
\* configured, else to the text+OCR extractor.
C10_PdfBackendSelection ==
  ingest.fileType = "pdf" =>
    /\ ingest.extractor = "textract" /\ ~ingest.textractAvailable =>
         /\ ingest.backend = "none"
         /\ ingest.failedAt = "configuration"
         /\ ingest.err = Err("BadRequest", MsgTextractNotConfigured)
    /\ ingest.extractor = "gemini" /\ ~ingest.geminiAvailable =>
         /\ ingest.backend = "none"
         /\ ingest.failedAt = "configuration"
         /\ ingest.err = Err("BadRequest", MsgGeminiNotConfigured)
    /\ ingest.extractor = "textract" /\ ingest.textractAvailable =>
         ingest.backend = "textract"
    /\ ingest.extractor = "gemini" /\ ingest.geminiAvailable =>
         ingest.backend = "gemini"
    /\ ingest.extractor = "auto" =>
         ingest.backend = IF ingest.geminiAvailable THEN "gemini"
                          ELSE IF ingest.textractAvailable THEN "textract"
                          ELSE "pdfExtractor"

\* Textract was requested for a PDF without being configured while Gemini
\* was: the call was rejected and Gemini was not used
C10_Witness ==
  /\ ingest.pc = "rejected"
  /\ ingest.fileType = "pdf"
  /\ ingest.extractor = "textract"
  /\ ~ingest.textractAvailable
  /\ ingest.geminiAvailable
  /\ ingest.backend = "none"
  /\ upload.status = "failed"

\* ------------------------------------------------------------------------
\* Properties of the extractors
\* ------------------------------------------------------------------------
ExtractionMethods ==
  {"normalizeTextToLineItems", "parseResponse", "mapToLineItems", "extractLineItems"}

\* C11: every PDF extraction path returns at least one line item: the text
\* fallback for every extracted text, each structured backend (through its
\* receipt-style item) also when it read no table line item.
C11_ExtractionNeverEmpty ==
  calc.method \in ExtractionMethods => Len(calc.result) >= 1

\* the type of a MIME type alone, and of a file name's extension alone
TypeOfMime(mimeType) ==
  IF mimeType = "application/pdf" THEN "pdf"
  ELSE IF mimeType = XLSX_MIME THEN "xlsx"
  ELSE IF mimeType \in CSV_MIMES THEN "csv"
  ELSE "unsupported"

TypeOfExtension(fileName) ==
  IF EndsWith(ToLowerCase(fileName), PdfExtension) THEN "pdf"
  ELSE IF EndsWith(ToLowerCase(fileName), XlsxExtension) THEN "xlsx"
  ELSE IF EndsWith(ToLowerCase(fileName), CsvExtension) THEN "csv"
  ELSE "unsupported"

\* content signature, then MIME type, then extension, then content sniff
TypeInStatedOrder(in) ==
  IF HasMagic(in.buffer, PDF_MAGIC) THEN "pdf"
  ELSE IF /\ HasMagic(in.buffer, XLSX_ZIP_MAGIC)
          /\ "xlsx" \in {TypeOfMime(in.mimeType), TypeOfExtension(in.fileName)}
    THEN "xlsx"
  ELSE IF TypeOfMime(in.mimeType) # "unsupported" THEN TypeOfMime(in.mimeType)
  ELSE IF TypeOfExtension(in.fileName) # "unsupported" THEN TypeOfExtension(in.fileName)
  ELSE IF /\ \E i \in 1..Len(in.buffer) : in.buffer[i] \in Delimiters
          /\ ~Includes(in.buffer, PDF_MAGIC)
    THEN "csv"
  ELSE "unsupported"

\* C12: detectFileType decides by content signature, then MIME type, then
\* file extension, then content sniff, else fails as unsupported; a
\* recognised MIME type wins over a conflicting extension.
C12_DetectionOrder ==
  calc.method = "detectFileType" => calc.result = TypeInStatedOrder(calc.args)

\* ------------------------------------------------------------------------
\* Properties of normalize()
\* ------------------------------------------------------------------------
IsBRL(record) ==
  record.currencyCode # Null /\ ToUpperCase(record.currencyCode.s) = CurrencyBRL

\* C13 as stated: a BRL record with a cost has brlTaxAmount = costBeforeTax x 0.13 and
\* costAfterTax = costBeforeTax + brlTaxAmount; every other record has no
\* brlTaxAmount and costAfterTax = costBeforeTax.
C13_BrlTaxExact ==
  calc.method = "normalize" =>
    LET r == calc.result
    IN  IF IsBRL(r)
          THEN r.costBeforeTax # Null =>
                 /\ r.brlTaxAmount # Null /\ r.costAfterTax # Null
                 /\ r.brlTaxAmount.n * 100 = r.costBeforeTax.n * BRL_TAX_RATE
                 /\ r.costAfterTax.n = r.costBeforeTax.n + r.brlTaxAmount.n
          ELSE r.brlTaxAmount = Null /\ r.costAfterTax = r.costBeforeTax

\* C13 amended: for a BRL record with a cost, brlTaxAmount is the cost x 0.13
\* rounded to 4 decimals and costAfterTax is cost + brlTaxAmount rounded to 4
\* decimals; a record of another currency, or without a cost, has no
\* brlTaxAmount and costAfterTax = costBeforeTax.
C13_BrlTaxRounded ==
  calc.method = "normalize" =>
    LET r    == calc.result
        tick == CostScale \div 10000
    IN  IF IsBRL(r) /\ r.costBeforeTax # Null
          THEN /\ r.brlTaxAmount # Null /\ r.costAfterTax # Null
               /\ r.brlTaxAmount.n % tick = 0 /\ r.costAfterTax.n % tick = 0
               /\ 2 * (r.brlTaxAmount.n * 100 - r.costBeforeTax.n * BRL_TAX_RATE) <= tick * 100
               /\ 2 * (r.costBeforeTax.n * BRL_TAX_RATE - r.brlTaxAmount.n * 100) <= tick * 100
               /\ 2 * (r.costAfterTax.n - (r.costBeforeTax.n + r.brlTaxAmount.n)) <= tick
               /\ 2 * ((r.costBeforeTax.n + r.brlTaxAmount.n) - r.costAfterTax.n) <= tick
          ELSE r.brlTaxAmount = Null /\ r.costAfterTax = r.costBeforeTax

\* a record in lower-case 'brl' costing 1.234567: tax 0.1605, after tax 1.3951
C13_Witness ==
  /\ calc.method = "normalize"
  /\ calc.result.currencyCode = Str(<<"b", "r", "l">>)
  /\ calc.result.costBeforeTax = Num(1234567)
  /\ calc.result.brlTaxAmount = Num(160500)
  /\ calc.result.costAfterTax = Num(1395100)

\* C14: ociEquivalentQuantity is null without a usage quantity; the usage
\* quantity unchanged for a non-Compute record and for a Compute record with
\* an ARM-family keyword (whether or not a vCPU keyword matches too); exactly
\* half the usage quantity, unrounded, for a Compute record with a
\* vCPU-counted keyword; the usage quantity unchanged otherwise.
C14_OciEquivalent ==
  calc.method = "normalize" =>
    LET r        == calc.result
        combined == ToLowerCase(r.productName \o <<" ">> \o r.rawCategory)
    IN  IF r.usageQuantity = Null THEN r.ociEquivalentQuantity = Null
        ELSE IF r.serviceCategory # "Compute"
          THEN r.ociEquivalentQuantity = r.usageQuantity
        ELSE IF TestWord(combined, ARM_KEYWORDS)
          THEN r.ociEquivalentQuantity = r.usageQuantity
        ELSE IF TestWord(combined, VCPU_KEYWORDS)
          THEN /\ r.ociEquivalentQuantity # Null
               /\ 2 * r.ociEquivalentQuantity.n = r.usageQuantity.n
        ELSE r.ociEquivalentQuantity = r.usageQuantity

\* a Compute record 'Graviton c6g instance' (ARM keyword and vCPU keyword)
\* with 1.501 units keeps 1.501
C14_Witness ==
  /\ calc.method = "normalize"
  /\ calc.result.serviceCategory = "Compute"
  /\ calc.result.productName = NameGraviton
  /\ TestWord(ToLowerCase(NameGraviton), ARM_KEYWORDS)
  /\ TestWord(ToLowerCase(NameGraviton), VCPU_KEYWORDS)
  /\ calc.result.usageQuantity = Num(3002)
  /\ calc.result.ociEquivalentQuantity = Num(3002)

\* what is left of r / d after the decimals are taken from it, in units of
\* d at the last decimal place
RECURSIVE Residual(_, _, _)
Residual(r, d, decimals) ==
  IF decimals = << >> THEN r
  ELSE Residual(r * 10 - Head(decimals) * d, d, Tail(decimals))

\* numerator / denominator minus the magnitude of the decimal number
UnitPriceResidual(record) ==
  LET mag == IF record.costBeforeTax.n < 0 THEN -record.costBeforeTax.n
             ELSE record.costBeforeTax.n
      den == (CostScale \div QuantityScale) * record.usageQuantity.n
  IN  Residual(mag - record.unitPrice.whole * den, den, record.unitPrice.decimals)

HasUnitPrice(record) ==
  /\ record.costBeforeTax # Null
  /\ record.usageQuantity # Null
  /\ record.usageQuantity.n > 0

\* C18 as stated: unitPrice is exactly costBeforeTax / usageQuantity when both
\* are present and the quantity is positive, and null otherwise.
C18_UnitPriceExact ==
  calc.method = "normalize" =>
    LET r == calc.result
    IN  IF HasUnitPrice(r)
          THEN /\ r.unitPrice # Null
               /\ r.unitPrice.negative => r.costBeforeTax.n < 0
               /\ UnitPriceResidual(r) = 0
          ELSE r.unitPrice = Null

\* C18 amended: unitPrice is costBeforeTax / usageQuantity rounded to 10
\* decimals when both are present and the quantity is positive, and null
\* otherwise.
C18_UnitPriceRounded ==
  calc.method = "normalize" =>
    LET r == calc.result
    IN  IF HasUnitPrice(r)
          THEN /\ r.unitPrice # Null
               /\ Len(r.unitPrice.decimals) = UNIT_PRICE_DECIMALS
               /\ r.unitPrice.negative => r.costBeforeTax.n < 0
               /\ 2 * UnitPriceResidual(r) <= (CostScale \div QuantityScale) * r.usageQuantity.n
               /\ -2 * UnitPriceResidual(r) <= (CostScale \div QuantityScale) * r.usageQuantity.n
          ELSE r.unitPrice = Null

\* 10 over 3 units gives 3.3333333333
C18_Witness ==
  /\ calc.method = "normalize"
  /\ calc.result.costBeforeTax = Num(10000000)
  /\ calc.result.usageQuantity = Num(6000)
  /\ calc.result.unitPrice = Decimal(FALSE, 3, <<3, 3, 3, 3, 3, 3, 3, 3, 3, 3>>)

\* ------------------------------------------------------------------------
\* Properties of CostSummaryService.build
\* ------------------------------------------------------------------------
RECURSIVE SumOfCosts(_)
SumOfCosts(items) ==
  IF items = << >> THEN 0
  ELSE (IF Head(items).costBeforeTax = Null THEN 0 ELSE Head(items).costBeforeTax.n)
         + SumOfCosts(Tail(items))

\* C15: grandTotal is the sum of the non-null costs plus the supplied tax (the
\* sum alone without a tax), rounded to 2 decimals once, at the end.
C15_GrandTotalRoundedOnce ==
  calc.method = "build" =>
    LET exact == SumOfCosts(calc.args.lineItems)
                   + (IF calc.args.totalTax = Null THEN 0 ELSE calc.args.totalTax.n)
    IN  calc.result.grandTotal = Num(round2(exact))

\* ------------------------------------------------------------------------
\* Properties of InstanceResolverService.resolveForRecord
\* ------------------------------------------------------------------------
\* the instance-type token of a text, by the expression of the record's provider
TokenOf(record, text) ==
  IF ToLowerCase(record.provider) = <<"a", "z", "u", "r", "e">> THEN Exec(text, text, AZURE_SKU_PATTERN)
  ELSE IF ToLowerCase(record.provider) = <<"g", "c", "p">> THEN matchPattern(text, GCP_MACHINE_PATTERN)
  ELSE matchPattern(text, AWS_INSTANCE_PATTERN)

TokenExtractable(record) ==
  \/ TokenOf(record, record.productCode) # Null
  \/ TokenOf(record, record.productName) # Null
  \/ /\ record.rawData # Null
     /\ \E k \in 1..Len(CUR_FIELDS) :
          /\ record.rawData.fields[CUR_FIELDS[k]].t = "string"
          /\ TokenOf(record, record.rawData.fields[CUR_FIELDS[k]].s) # Null

FamilyMatched(record, instanceType) ==
  LET table == IF ToLowerCase(record.provider) = <<"a", "z", "u", "r", "e">> THEN AZURE_FAMILY_TO_OCI_SKU
               ELSE IF ToLowerCase(record.provider) = <<"g", "c", "p">> THEN GCP_FAMILY_TO_OCI_SKU
               ELSE AWS_FAMILY_TO_OCI_SKU
  IN  \E k \in 1..Len(table) :
        FirstAlternative(ToLowerCase(instanceType), 1, table[k].pattern, 1) # 0

\* C16: resolveForRecord returns null only when no instance-type token can be
\* extracted from the product code, the product name or the raw-data fallback
\* fields; a Database record is always resolved; an instance type of an
\* unmatched family resolves to the general-purpose default SKU.
C16_NullOnlyWithoutToken ==
  calc.method = "resolveForRecord" =>
    /\ calc.result = Null => ~TokenExtractable(calc.args)
    /\ calc.args.serviceCategory = "Database" => calc.result # Null
    /\ (/\ calc.result # Null
        /\ calc.args.serviceCategory # "Database"
        /\ ~FamilyMatched(calc.args, calc.result.instanceType.s))
         => calc.result.ociSku = OCI_E4_FLEX

\* C17: ocpuCount is max(1, ceil(vcpuCount / 2)) for a known vCPU count and an
\* x86 SKU, vcpuCount for a known vCPU count and an ARM SKU, and 1 for an
\* unknown vCPU count; resolutionMethod is 'instance-level' exactly when the
\* vCPU count is known.
C17_OcpuCount ==
  (calc.method = "resolveForRecord" /\ calc.result # Null) =>
    LET r == calc.result
    IN  /\ (r.vcpuCount # Null /\ ~r.ociSku.isArm) =>
             r.ocpuCount = Max({1, (r.vcpuCount.n + 1) \div 2})
        /\ (r.vcpuCount # Null /\ r.ociSku.isArm) => r.ocpuCount = r.vcpuCount.n
        /\ r.vcpuCount = Null => r.ocpuCount = 1
        /\ r.resolutionMethod = "instance-level" <=> r.vcpuCount # Null

\* ------------------------------------------------------------------------
\* Properties of overlapping model() runs
\* ------------------------------------------------------------------------
\* C19: when model() runs on the same batch of N records overlapped and all
\* have completed, the persisted modeling rows are the N rows of one of the
\* runs: not 2N rows and not rows of both.
C19_OverlappingRunsLeaveOneResult ==
  (/\ overlap /\ del.pc = "idle"
   /\ Len(unifiedBilling) >= 1
   /\ \A r \in Runs : run[r].pc = "done" /\ run[r].records = unifiedBilling)
  => \E r \in Runs :
       modeling = [i \in 1..Len(run[r].result.rows) |-> insertDoc(run[r].result.rows[i])]

\* ------------------------------------------------------------------------
\* Properties of the pricing caches
\* ------------------------------------------------------------------------
\* C20: in each pricing cache, once a value is stored under a key no lookup
\* stores a different value under that key.
C20_CacheEntriesImmutable ==
  [][\A service \in PricingServices : \A key \in CacheKeys(service) :
       cache[service][key].has => cache'[service][key] = cache[service][key]]_vars


\* ------------------------------------------------------------------------
\* Properties of the two line-item collections
\* ------------------------------------------------------------------------
\* C21: once processFile has finished for an upload, UnifiedBilling and
\* DocumentLineItem hold the same number of records: all N normalized items
\* when the status is 'completed', none when it is 'failed'.
C21_CollectionsAgree ==
  (ingest.pc \in {"resolved", "rejected"} /\ upload.status # "none")
  => /\ upload.status \in {"completed", "failed"}
     /\ upload.status = "completed" =>
          Len(unifiedBilling) = Len(ingest.items) /\ lineItems = Len(ingest.items)
     /\ upload.status = "failed" => Len(unifiedBilling) = 0 /\ lineItems = 0

\* ------------------------------------------------------------------------
\* Properties of the per-record estimate
\* ------------------------------------------------------------------------
\* the record and the row of the modelRow call
EstimatedRecord == calc.args.record

EstimatedRow == calc.result

\* the base estimate of the row: what the Windows surcharge was added to
BaseEstimateOfRow == EstimatedRow.ociEstimatedCost - EstimatedRow.windowsLicenseCost

\* the record is priced by quantity: not Other, quantity known and positive,
\* source cost positive
QuantityPriced(record) ==
  /\ record.serviceCategory # "Other"
  /\ record.ociEquivalentQuantity # NULL
  /\ record.ociEquivalentQuantity > 0
  /\ sourceCostOf(record) > 0

\* 0.05 <= estimate / sourceCost <= 20 in exact arithmetic, for sourceCost > 0
WithinBand(estimate, sourceCost) ==
  /\ (5 * sourceCost + 100 * CostDen - 1) \div (100 * CostDen) <= estimate
  /\ estimate <= (20 * sourceCost) \div CostDen

\* C22: a quantity-based estimate is accepted only if it is 0 or its ratio
\* to the source cost lies within [0.05, 20], bounds included; outside the
\* band the record's estimate is the ratio-based one.
C22_BandDecidesEstimate ==
  (calc.method = "modelRow" /\ QuantityPriced(EstimatedRecord))
  => LET quantityBased == quantityBasedOciCost(EstimatedRecord.serviceCategory,
                                               EstimatedRecord.ociEquivalentQuantity,
                                               EstimatedRow.ociUnitPrice)
     IN  BaseEstimateOfRow =
           IF quantityBased = 0 \/ WithinBand(quantityBased, EstimatedRow.sourceCost)
             THEN quantityBased
             ELSE ratioBasedFallback(EstimatedRecord.serviceCategory, EstimatedRow.sourceCost)

\* estimate = sourceCost x (1 - savingsFactor[category]) exactly
IsSourceCostTimesFactor(estimate) ==
  estimate * 100 * CostDen
    = EstimatedRow.sourceCost * (100 - SAVINGS_FACTOR[EstimatedRow.serviceCategory])

\* the same rounded to 4 decimals for a positive source cost, 0 otherwise
IsRoundedOrZero(estimate) ==
  IF EstimatedRow.sourceCost > 0
    THEN 2 * (estimate * 100 * CostDen
                - EstimatedRow.sourceCost * (100 - SAVINGS_FACTOR[EstimatedRow.serviceCategory]))
           \in (1 - 100 * CostDen)..(100 * CostDen)
    ELSE estimate = 0

\* the estimate takes one of the two paths: Other and every record without
\* a known positive quantity and a positive source cost get the ratio-based
\* value, the others the quantity-based or the ratio-based one
OnePath(exact) ==
  LET ratioBased(estimate) == IF exact THEN IsSourceCostTimesFactor(estimate)
                              ELSE IsRoundedOrZero(estimate)
      quantityBased == quantityBasedOciCost(EstimatedRecord.serviceCategory,
                                            EstimatedRecord.ociEquivalentQuantity,
                                            EstimatedRow.ociUnitPrice)
  IN  IF QuantityPriced(EstimatedRecord)
        THEN BaseEstimateOfRow = quantityBased \/ ratioBased(BaseEstimateOfRow)
        ELSE ratioBased(BaseEstimateOfRow)

\* C23 as stated: one path per record; the ratio-based estimate is
\* sourceCost x (1 - savingsFactor[category]), which is 0 for source cost 0.
C23_OnePathExact ==
  calc.method = "modelRow"
  => /\ OnePath(TRUE)
     /\ EstimatedRow.sourceCost = 0 => BaseEstimateOfRow = 0

\* C23 amended: one path per record; the ratio-based estimate is
\* sourceCost x (1 - savingsFactor[category]) rounded to 4 decimals for a
\* positive source cost and 0 for a source cost that is 0 or negative.
C23_OnePathRounded ==
  calc.method = "modelRow"
  => /\ OnePath(FALSE)
     /\ EstimatedRow.sourceCost = 0 => BaseEstimateOfRow = 0

\* an Other record with a known quantity, a positive source cost and a
\* quantity-based value that differs from its estimate
C23_Witness ==
  /\ calc.method = "modelRow"
  /\ EstimatedRecord.serviceCategory = "Other"
  /\ EstimatedRecord.ociEquivalentQuantity # NULL
  /\ EstimatedRecord.ociEquivalentQuantity > 0
  /\ EstimatedRow.sourceCost > 0
  /\ BaseEstimateOfRow = ratioBasedFallback("Other", EstimatedRow.sourceCost)
  /\ BaseEstimateOfRow # quantityBasedOciCost("Other", EstimatedRecord.ociEquivalentQuantity,
                                              EstimatedRow.ociUnitPrice)
  /\ useQuantityBased(quantityBasedOciCost("Other", EstimatedRecord.ociEquivalentQuantity,
                                           EstimatedRow.ociUnitPrice), EstimatedRow.sourceCost)

\* the priced usage of a Network record: what exceeds 10,240 GB
UsageAboveAllowance(qty) ==
  IF qty <= 10240 * QtyDen THEN 0 ELSE qty - 10240 * QtyDen

\* C24: a Network record on the quantity-based path is priced for the usage
\* above 10,240 GB only: 0 up to the allowance, (quantity - 10,240) x unit
\* price (a row value, 4 decimals) above it.
C24_NetworkAllowance ==
  (calc.method = "modelRow" /\ EstimatedRecord.serviceCategory = "Network"
     /\ QuantityPriced(EstimatedRecord))
  => LET priced == ToFixed(UsageAboveAllowance(EstimatedRecord.ociEquivalentQuantity)
                             * EstimatedRow.ociUnitPrice, QtyDen)
     IN  /\ EstimatedRecord.ociEquivalentQuantity <= 10240 * QtyDen => BaseEstimateOfRow = 0
         /\ BaseEstimateOfRow = IF useQuantityBased(priced, EstimatedRow.sourceCost)
                                  THEN priced
                                  ELSE ratioBasedFallback("Network", EstimatedRow.sourceCost)

\* 5,000 GB of egress at a positive unit price and a positive source cost
\* are estimated at 0
C24_Witness ==
  /\ calc.method = "modelRow"
  /\ EstimatedRecord.serviceCategory = "Network"
  /\ EstimatedRecord.ociEquivalentQuantity = 5000 * QtyDen
  /\ EstimatedRow.ociUnitPrice > 0
  /\ EstimatedRow.sourceCost > 0
  /\ EstimatedRow.ociEstimatedCost = 0

\* C25: a Compute record flagged Windows-licensed gets a surcharge on top of
\* its base estimate: quantity x license price when the quantity is known,
\* base estimate x (license price / base compute price) otherwise; every
\* other record has surcharge 0 and hasWindowsLicense false; the estimated
\* cost is the base estimate plus the surcharge.
C25_WindowsSurcharge ==
  calc.method = "modelRow"
  => LET flagged      == EstimatedRecord.isWindowsLicensed
                           /\ EstimatedRecord.serviceCategory = "Compute"
         qty          == EstimatedRecord.ociEquivalentQuantity
         licensePrice == PriceOr(calc.args.ociPrices, WINDOWS_LICENSE_SKU,
                                 WINDOWS_LICENSE_PRICE_PER_OCPU_HOUR)
         computePrice == PriceOr(calc.args.ociPrices, CATEGORY_SKU_MAP["Compute"].partNumber,
                                 CATEGORY_SKU_MAP["Compute"].fallbackUnitPrice)
         base         == baseEstimate(EstimatedRecord.serviceCategory, EstimatedRow.sourceCost,
                                      qty, EstimatedRow.ociUnitPrice)
     IN  /\ EstimatedRow.hasWindowsLicense = flagged
         /\ EstimatedRow.windowsLicenseCost =
              IF ~flagged THEN 0
              ELSE IF qty # NULL THEN ToFixed(qty * licensePrice, QtyDen)
              ELSE ToFixed(base * licensePrice, computePrice)
         /\ EstimatedRow.ociEstimatedCost = base + EstimatedRow.windowsLicenseCost

\* the numbers of a row
RowNumbers(row) ==
  {row.sourceCost, row.ociUnitPrice, row.ociEstimatedCost, row.savingsAmount,
   row.savingsPct, row.windowsLicenseCost}

\* the numbers of a summary
SummaryNumbers(summary) ==
  {summary.totalSourceCost, summary.totalOciEstimatedCost, summary.totalSavings,
   summary.totalSavingsPct}
  \cup UNION {{summary.byCategory[cat].sourceCost, summary.byCategory[cat].ociCost,
               summary.byCategory[cat].savings} : cat \in DOMAIN summary.byCategory}

IsCurrencyColumn(column) ==
  \/ EndsWith(Trim(ToLowerCase(column.name)), <<"c", "u", "r", "r", "e", "n", "c", "y">>)
  \/ EndsWith(Trim(ToLowerCase(column.name)), <<"m", "o", "e", "d", "a">>)

WithoutCurrencyColumns(row) == SelectSeq(row, LAMBDA column : ~IsCurrencyColumn(column))

\* C27: the cost and the unit price of a CSV row are resolved as if its
\* columns ending in 'currency' or 'moeda' were absent: no value comes from
\* such a column and none shadows the value column.
C27_CurrencyColumnsExcluded ==
  calc.method = "normalizeRow"
  => /\ calc.result.costBeforeTax = getCost(WithoutCurrencyColumns(calc.args))
     /\ calc.result.unitPrice = getUnitPrice(WithoutCurrencyColumns(calc.args))

\* C28: without a hint every extractor takes the provider from the first
\* signal that matches, file name, then columns, then content: a provider
\* indicated by the file name is the one detected whatever the columns or
\* the content indicate.
C28_FileNameFirst ==
  (calc.method = "detectProvider" /\ detectFromFileName(calc.args.fileName) # "unknown")
  => calc.result = detectFromFileName(calc.args.fileName)

\* C29: the numeric parser of the structured-document extractors returns
\* the number an amount stands for, in U.S. format as well as in Brazilian
\* format, and null for a value that is no number.
C29_AmountsParsed ==
  calc.method = "parseNum" => calc.result = calc.args.value


\* ------------------------------------------------------------------------
\* Properties of the sign of the estimate
\* ------------------------------------------------------------------------
\* no unit price of the price map is negative
PricesNotNegative(ociPrices) == \A pn \in DOMAIN ociPrices : ociPrices[pn] >= 0

\* C30 as stated: with no negative unit price the row's ociEstimatedCost is
\* >= 0, also for a source cost that is 0 or negative, and its savingsAmount
\* is <= its sourceCost.
C30_SavingsBelowSourceCost ==
  (calc.method = "modelRow" /\ PricesNotNegative(calc.args.ociPrices))
  => /\ EstimatedRow.ociEstimatedCost >= 0
     /\ EstimatedRow.savingsAmount * CostDen <= EstimatedRow.sourceCost

\* C30 amended: with no negative unit price the row's ociEstimatedCost is
\* >= 0, also for a source cost that is 0 or negative, and its savingsAmount
\* is <= its sourceCost rounded to 4 decimals.
C30_SavingsBelowRoundedSourceCost ==
  (calc.method = "modelRow" /\ PricesNotNegative(calc.args.ociPrices))
  => /\ EstimatedRow.ociEstimatedCost >= 0
     /\ EstimatedRow.savingsAmount <= ToFixed(EstimatedRow.sourceCost, CostDen)

\* a credit is estimated at 0 and saves its own negative amount
C30_Witness ==
  /\ calc.method = "modelRow"
  /\ PricesNotNegative(calc.args.ociPrices)
  /\ EstimatedRecord.isWindowsLicensed
  /\ EstimatedRecord.ociEquivalentQuantity # NULL
  /\ EstimatedRecord.ociEquivalentQuantity > 0
  /\ EstimatedRow.sourceCost = Ticks(-20000)
  /\ EstimatedRow.ociEstimatedCost = 0
  /\ EstimatedRow.savingsAmount = -20000
====
